---- MODULE Spec2Model ----
(***************************************************************************)
(* Model of the AutoTrader strategy execution engine:                      *)
(*   - EMAOptionsStrategy / BaseStrategy  (src/strategies)                 *)
(*   - the indicator helpers it uses      (src/utils/indicators.py)        *)
(*   - WebhookServer                      (src/webhook/server.py)          *)
(*                                                                         *)
(* Conventions.  Python's None is the record None.  A dict key that may be *)
(* missing is modelled by a has_<key> flag or the value "absent".  Floats  *)
(* are exact rationals: stop_loss and target are kept in hundredths of a   *)
(* price unit, pnl_pct and the EMA values as [num, den] fractions.  The    *)
(* 'timestamp' keys written by log_trade/add_signal/_add_log and the       *)
(* 'signal'/'entry_time'/'exit_time'/'reason' keys of a trade are left out *)
(* of the records: nothing in the engine reads them.                       *)
(***************************************************************************)
EXTENDS Integers, Sequences, FiniteSets, TLC

VARIABLES
    is_running,        \* BaseStrategy.is_running
    positions,         \* BaseStrategy.positions: cache of the broker's netPositions
    signals,           \* BaseStrategy.signals: the signal history
    trade_log,         \* BaseStrategy.trade_log: the trade ledger
    current_position,  \* EMAOptionsStrategy.current_position: None or a position dict
    TRADING_MODE,      \* config.TRADING_MODE, a process-wide global
    broker_orders,     \* orders the Broker Gateway received through place_order
    result,            \* what the last public call of the strategy, or get_logs, returned
    token,             \* WebhookServer.token: the configured secret
    trade_callback,    \* WebhookServer.trade_callback: which callback is registered
    webhook_logs,      \* WebhookServer.webhook_logs
    callback_calls,    \* the invocations of trade_callback, in order
    accepted,          \* the entries handed to _add_log since construction, in order
    request,           \* the POST /webhook request in flight, None when there is none
    http_response,     \* the HTTP response to the last POST /webhook
    pc,                \* per thread inside execute_signal: the line it is about to run
    frame,             \* per thread inside execute_signal: its local variables
    fetched,           \* whether the last call on the strategy asked the market data provider for history
    fast_arg,          \* the fast series handed to detect_crossover
    slow_arg,          \* the slow series handed to detect_crossover
    detected,          \* what detect_crossover returned for them, None before the call
    server_is_running, \* WebhookServer.is_running
    server_thread,     \* the listener threads start() has launched
    add_log_pc,        \* per handler thread inside _add_log: the line it is about to run
    add_log_local      \* per handler thread inside _add_log: the slice it has evaluated

strategyVars == <<is_running, positions, signals, trade_log, current_position,
                  TRADING_MODE, broker_orders, result>>

webhookVars == <<token, trade_callback, webhook_logs, callback_calls, accepted, request,
                 http_response>>

threadVars == <<pc, frame>>

providerVars == <<fetched>>

indicatorVars == <<fast_arg, slow_arg, detected>>

serverVars == <<server_is_running, server_thread, add_log_pc, add_log_local>>

vars == <<strategyVars, webhookVars, threadVars, providerVars, indicatorVars, serverVars>>

(***************************************************************************)
(* Bounds of the model.                                                    *)
(***************************************************************************)
MaxTrades == 3      \* longest trade ledger explored
MaxSignals == 1     \* longest signal history explored
MaxOrders == 1      \* most orders the broker receives
MaxLogs == 1        \* most commands the webhook server accepts
MaxConcTrades == 2  \* ledger length up to which overlapping executions are started
MaxOverflow == 3    \* most commands accepted beyond the cap of the webhook log
MaxStopSignals == 2 \* longest signal history while start() and stop() interleave
MaxSeries == 3      \* longest series handed to detect_crossover on its own

(***************************************************************************)
(* Strategy configuration of the modelled instance (config_params).        *)
(***************************************************************************)
fast_ema_period == 1
slow_ema_period == 3
position_size == 2
stop_loss_pct == 2
target_pct == 4
underlying_symbol == "NSE:NIFTY50-INDEX"

None == [none |-> TRUE]

Prices == {100, 110}
Modes == {"PAPER", "LIVE"}

(***************************************************************************)
(* Signals handed to execute_signal from outside generate_signal (a direct *)
(* call, or a synthetic signal built for an external command).             *)
(***************************************************************************)
Actions == {"HOLD", "BUY_CALL", "BUY_PUT", "EXIT", "SELL"}

ActionInputs ==
    {[action |-> a, option_type |-> "absent"] : a \in Actions}
    \cup {[action |-> "BUY_CALL", option_type |-> "CE"],
          [action |-> "BUY_PUT", option_type |-> "PE"]}

\* every shape of signal: with or without 'current_price' and 'option_type'
SignalInputs ==
    {[action |-> a.action, has_price |-> TRUE, current_price |-> p,
      option_type |-> a.option_type] : a \in ActionInputs, p \in Prices}
    \cup
    {[action |-> a.action, has_price |-> FALSE, current_price |-> 0,
      option_type |-> a.option_type] : a \in ActionInputs}

\* the signals of Spec: priced entries, and HOLD, EXIT and an unknown action
CommandSignals ==
    {[action |-> a, has_price |-> FALSE, current_price |-> 0, option_type |-> "absent"] :
        a \in {"HOLD", "SELL", "EXIT"}}
    \cup
    {[action |-> a.action, has_price |-> TRUE, current_price |-> p,
      option_type |-> a.option_type] :
        a \in {[action |-> "BUY_CALL", option_type |-> "CE"],
               [action |-> "BUY_PUT", option_type |-> "PE"]}, p \in Prices}

\* signal.get('current_price', default)
get_current_price(signal, default) ==
    IF signal.has_price THEN signal.current_price ELSE default

\* signal.get('option_type', default)
get_option_type(signal, default) ==
    IF signal.option_type = "absent" THEN default ELSE signal.option_type

Result(status, message) == [status |-> status, message |-> message]

(***************************************************************************)
(* BaseStrategy helpers.                                                   *)
(***************************************************************************)
\* entry_price * (1 -/+ stop_loss_pct / 100), in hundredths
calculate_stop_loss(entry_price, side, pct) ==
    IF side = 1 THEN entry_price * (100 - pct) ELSE entry_price * (100 + pct)

\* entry_price * (1 +/- target_pct / 100), in hundredths
calculate_target(entry_price, side, pct) ==
    IF side = 1 THEN entry_price * (100 + pct) ELSE entry_price * (100 - pct)

\* log_trade putting the newest trade first
Mut_log_trade_prepend(log, trade_info) == <<trade_info>> \o log

log_trade(log, trade_info) == Append(log, trade_info)

add_signal(history, signal) == Append(history, signal)

\* trade.get('type'): CLOSE trades carry 'action', not 'type'
TradeType(trade) == IF "type" \in DOMAIN trade THEN trade.type ELSE "absent"

(***************************************************************************)
(* EMAOptionsStrategy._execute_exit, as a function of the state it reads.  *)
(* Returns the state it leaves and its return value.                       *)
(***************************************************************************)
\* exit_info with pnl_pct taken relative to the exit price
Mut_ExitInfo_pct_of_exit_price(pos, signal) ==
    LET entry_price == pos.entry_price
        current_price == get_current_price(signal, entry_price)
        quantity == pos.quantity
    IN  [symbol |-> pos.symbol,
         exit_price |-> current_price,
         entry_price |-> entry_price,
         quantity |-> quantity,
         pnl |-> (current_price - entry_price) * quantity,
         pnl_pct |-> IF current_price # 0
                     THEN [num |-> (current_price - entry_price) * 100, den |-> current_price]
                     ELSE [num |-> 0, den |-> 1]]

ExitInfo(pos, signal) ==
    LET entry_price == pos.entry_price
        current_price == get_current_price(signal, entry_price)
        quantity == pos.quantity
    IN  [symbol |-> pos.symbol,
         exit_price |-> current_price,
         entry_price |-> entry_price,
         quantity |-> quantity,
         pnl |-> (current_price - entry_price) * quantity,
         pnl_pct |-> IF entry_price # 0
                     THEN [num |-> (current_price - entry_price) * 100, den |-> entry_price]
                     ELSE [num |-> 0, den |-> 1]]

\* _execute_exit treating "nothing to exit" as a failure
Mut_execute_exit_flat_error(pos, log, mode, signal) ==
    IF pos = None
    THEN [current_position |-> pos, trade_log |-> log,
          result |-> Result("error", "No position to exit")]
    ELSE IF mode = "PAPER"
         THEN [current_position |-> None,
               trade_log |-> log_trade(log, [type |-> "EXIT", mode |-> "PAPER"]
                                            @@ ExitInfo(pos, signal)),
               result |-> Result("success", "Paper trade exit executed")]
         ELSE [current_position |-> pos, trade_log |-> log,
               result |-> Result("error", "Live trading not implemented in demo")]

_execute_exit(pos, log, mode, signal) ==
    IF pos = None
    THEN [current_position |-> pos, trade_log |-> log,
          result |-> Result("success", "No position to exit")]
    ELSE IF mode = "PAPER"
         THEN [current_position |-> None,
               trade_log |-> log_trade(log, [type |-> "EXIT", mode |-> "PAPER"]
                                            @@ ExitInfo(pos, signal)),
               result |-> Result("success", "Paper trade exit executed")]
         ELSE [current_position |-> pos, trade_log |-> log,
               result |-> Result("error", "Live trading not implemented in demo")]

(***************************************************************************)
(* EMAOptionsStrategy._execute_entry.                                      *)
(***************************************************************************)
\* entry_info with the short convention for put entries
Mut_EntryInfo_short_for_put(signal) ==
    LET option_type == get_option_type(signal, "CE")
        price == get_current_price(signal, 0)
        side == IF option_type = "PE" THEN -1 ELSE 1
    IN  [symbol |-> <<underlying_symbol, option_type>>,
         option_type |-> option_type,
         entry_price |-> price,
         quantity |-> position_size,
         stop_loss |-> calculate_stop_loss(price, side, stop_loss_pct),
         target |-> calculate_target(price, side, target_pct)]

EntryInfo(signal) ==
    LET option_type == get_option_type(signal, "CE")
        price == get_current_price(signal, 0)
    IN  [symbol |-> <<underlying_symbol, option_type>>,
         option_type |-> option_type,
         entry_price |-> price,
         quantity |-> position_size,
         stop_loss |-> calculate_stop_loss(price, 1, stop_loss_pct),
         target |-> calculate_target(price, 1, target_pct)]

\* _execute_entry without the exit of the position already held
Mut_execute_entry_no_close(pos, log, mode, signal) ==
    LET entry_info == EntryInfo(signal)
    IN  IF mode = "PAPER"
        THEN [current_position |-> entry_info,
              trade_log |-> log_trade(log, [type |-> "ENTRY", mode |-> "PAPER"]
                                           @@ entry_info),
              result |-> Result("success", "Paper trade executed")]
        ELSE [current_position |-> pos, trade_log |-> log,
              result |-> Result("error",
                                "Option symbol construction required for live trading")]

\* _execute_entry recording the new ENTRY before it exits the position already held
Mut_execute_entry_exit_last(pos, log, mode, signal) ==
    LET entry_info == EntryInfo(signal)
        entered == log_trade(log, [type |-> "ENTRY", mode |-> "PAPER"] @@ entry_info)
    IN  IF mode = "PAPER"
        THEN [current_position |-> entry_info,
              trade_log |-> IF pos # None
                            THEN _execute_exit(pos, entered, mode, signal).trade_log
                            ELSE entered,
              result |-> Result("success", "Paper trade executed")]
        ELSE [current_position |-> pos, trade_log |-> log,
              result |-> Result("error",
                                "Option symbol construction required for live trading")]

\* _execute_entry doing the paper bookkeeping before it looks at the trading mode
Mut_execute_entry_live_books(pos, log, mode, signal) ==
    LET closed == IF pos # None
                  THEN _execute_exit(pos, log, "PAPER", signal)
                  ELSE [current_position |-> pos, trade_log |-> log]
        entry_info == EntryInfo(signal)
        booked == log_trade(closed.trade_log,
                            [type |-> "ENTRY", mode |-> "PAPER"] @@ entry_info)
    IN  IF mode = "PAPER"
        THEN [current_position |-> entry_info, trade_log |-> booked,
              result |-> Result("success", "Paper trade executed")]
        ELSE [current_position |-> entry_info, trade_log |-> booked,
              result |-> Result("error",
                                "Option symbol construction required for live trading")]

_execute_entry(pos, log, mode, signal) ==
    LET closed == IF pos # None
                  THEN _execute_exit(pos, log, mode, signal)
                  ELSE [current_position |-> pos, trade_log |-> log]
        entry_info == EntryInfo(signal)
    IN  IF mode = "PAPER"
        THEN [current_position |-> entry_info,
              trade_log |-> log_trade(closed.trade_log,
                                      [type |-> "ENTRY", mode |-> "PAPER"] @@ entry_info),
              result |-> Result("success", "Paper trade executed")]
        ELSE [current_position |-> closed.current_position,
              trade_log |-> closed.trade_log,
              result |-> Result("error",
                                "Option symbol construction required for live trading")]

(***************************************************************************)
(* EMAOptionsStrategy.execute_signal.                                      *)
(***************************************************************************)
execute_signal(pos, log, mode, signal) ==
    IF signal.action = "HOLD"
    THEN [current_position |-> pos, trade_log |-> log,
          result |-> Result("success", "Holding position")]
    ELSE IF signal.action \in {"BUY_CALL", "BUY_PUT"}
    THEN _execute_entry(pos, log, mode, signal)
    ELSE IF signal.action = "EXIT"
    THEN _execute_exit(pos, log, mode, signal)
    ELSE [current_position |-> pos, trade_log |-> log,
          result |-> Result("error", "Unknown action")]

(***************************************************************************)
(* utils/indicators.py.  An EMA value is the fraction num/den (den > 0).   *)
(***************************************************************************)
Less(a, b) == a.num * b.den < b.num * a.den
LessEq(a, b) == a.num * b.den <= b.num * a.den

\* prices.ewm(span=period, adjust=False).mean():
\*   y[0] = x[0],  y[t] = a*x[t] + (1-a)*y[t-1]  with  a = 2/(period+1)
RECURSIVE calculate_ema(_, _)
calculate_ema(prices, period) ==
    IF Len(prices) = 0 THEN <<>>
    ELSE IF Len(prices) = 1 THEN <<[num |-> prices[1], den |-> 1]>>
    ELSE LET prev == calculate_ema(SubSeq(prices, 1, Len(prices) - 1), period)
             last == prev[Len(prev)]
         IN  Append(prev, [num |-> 2 * prices[Len(prices)] * last.den
                                   + (period - 1) * last.num,
                           den |-> (period + 1) * last.den])

\* detect_crossover asking for a strict inequality at the previous point too
Mut_detect_crossover_strict(fast_series, slow_series) ==
    IF Len(fast_series) < 2 \/ Len(slow_series) < 2
    THEN [signal_type |-> 0, crossover |-> "none"]
    ELSE LET fast_current == fast_series[Len(fast_series)]
             fast_prev == fast_series[Len(fast_series) - 1]
             slow_current == slow_series[Len(slow_series)]
             slow_prev == slow_series[Len(slow_series) - 1]
         IN  IF Less(fast_prev, slow_prev) /\ Less(slow_current, fast_current)
             THEN [signal_type |-> 1, crossover |-> "bullish_cross"]
             ELSE IF Less(slow_prev, fast_prev) /\ Less(fast_current, slow_current)
             THEN [signal_type |-> -1, crossover |-> "bearish_cross"]
             ELSE IF Less(slow_current, fast_current)
             THEN [signal_type |-> 1, crossover |-> "none"]
             ELSE IF Less(fast_current, slow_current)
             THEN [signal_type |-> -1, crossover |-> "none"]
             ELSE [signal_type |-> 0, crossover |-> "none"]

detect_crossover(fast_series, slow_series) ==
    IF Len(fast_series) < 2 \/ Len(slow_series) < 2
    THEN [signal_type |-> 0, crossover |-> "none"]
    ELSE LET fast_current == fast_series[Len(fast_series)]
             fast_prev == fast_series[Len(fast_series) - 1]
             slow_current == slow_series[Len(slow_series)]
             slow_prev == slow_series[Len(slow_series) - 1]
         IN  IF LessEq(fast_prev, slow_prev) /\ Less(slow_current, fast_current)
             THEN [signal_type |-> 1, crossover |-> "bullish_cross"]
             ELSE IF LessEq(slow_prev, fast_prev) /\ Less(fast_current, slow_current)
             THEN [signal_type |-> -1, crossover |-> "bearish_cross"]
             ELSE IF Less(slow_current, fast_current)
             THEN [signal_type |-> 1, crossover |-> "none"]
             ELSE IF Less(fast_current, slow_current)
             THEN [signal_type |-> -1, crossover |-> "none"]
             ELSE [signal_type |-> 0, crossover |-> "none"]

(***************************************************************************)
(* What market_data.get_historical_data can return: None, or a frame whose *)
(* close column is a price series.  The series enumerated here are flat    *)
(* but for their last two bars; the short ones are flat.                   *)
(***************************************************************************)
MinBars == slow_ema_period + 5

BarSeries(n) ==
    {[i \in 1..n |-> IF i <= n - Len(tail) THEN p0 ELSE tail[i - (n - Len(tail))]] :
        p0 \in Prices, tail \in Prices \X Prices}

DataFrames ==
    {None}
    \cup {[close |-> c] : c \in BarSeries(MinBars)}
    \cup {[close |-> [i \in 1..(MinBars - 1) |-> p]] : p \in Prices}

\* the call of the provider raising instead of returning
Raised == [raised |-> TRUE]

\* every outcome of self.market_data.get_historical_data(...)
FetchResults == DataFrames \cup {Raised}

(***************************************************************************)
(* EMAOptionsStrategy._should_exit_position and generate_signal.           *)
(* generate_signal returns the signal and whether add_signal was reached.  *)
(***************************************************************************)
\* _should_exit_position leaving on any directional bias
Mut_should_exit_position_any_bias(pos, current_signal_type) ==
    IF pos = None THEN FALSE
    ELSE current_signal_type # 0

_should_exit_position(pos, current_signal_type) ==
    IF pos = None THEN FALSE
    ELSE IF pos.option_type = "CE" /\ current_signal_type = -1 THEN TRUE
    ELSE IF pos.option_type = "PE" /\ current_signal_type = 1 THEN TRUE
    ELSE FALSE

\* generate_signal looking at the open position before the crossover
Mut_generate_signal_position_first(df, pos) ==
    IF df = Raised
    THEN [signal |-> [action |-> "HOLD", has_price |-> FALSE, current_price |-> 0,
                      option_type |-> "absent", reason |-> "Error"],
          added |-> FALSE]
    ELSE IF df = None \/ Len(df.close) < slow_ema_period + 5
    THEN [signal |-> [action |-> "HOLD", has_price |-> FALSE, current_price |-> 0,
                      option_type |-> "absent", reason |-> "Insufficient data"],
          added |-> FALSE]
    ELSE LET fast_ema == calculate_ema(df.close, fast_ema_period)
             slow_ema == calculate_ema(df.close, slow_ema_period)
             cross == detect_crossover(fast_ema, slow_ema)
             base == [has_price |-> TRUE,
                      current_price |-> df.close[Len(df.close)],
                      fast_ema |-> fast_ema[Len(fast_ema)],
                      slow_ema |-> slow_ema[Len(slow_ema)],
                      signal_type |-> cross.signal_type,
                      crossover |-> cross.crossover]
             signal ==
                 IF pos # None
                 THEN IF _should_exit_position(pos, cross.signal_type)
                      THEN base @@ [action |-> "EXIT", option_type |-> "absent",
                                    reason |-> "Exit signal from opposite trend"]
                      ELSE base @@ [action |-> "HOLD", option_type |-> "absent",
                                    reason |-> "Continue holding position"]
                 ELSE IF cross.crossover = "bullish_cross"
                 THEN base @@ [action |-> "BUY_CALL", option_type |-> "CE",
                               reason |-> "Bullish EMA crossover"]
                 ELSE IF cross.crossover = "bearish_cross"
                 THEN base @@ [action |-> "BUY_PUT", option_type |-> "PE",
                               reason |-> "Bearish EMA crossover"]
                 ELSE base @@ [action |-> "HOLD", option_type |-> "absent",
                               reason |-> "No crossover detected"]
         IN  [signal |-> signal, added |-> TRUE]

\* generate_signal asking for slow_ema_period bars only
Mut_generate_signal_short_threshold(df, pos) ==
    IF df = Raised
    THEN [signal |-> [action |-> "HOLD", has_price |-> FALSE, current_price |-> 0,
                      option_type |-> "absent", reason |-> "Error"],
          added |-> FALSE]
    ELSE IF df = None \/ Len(df.close) < slow_ema_period
    THEN [signal |-> [action |-> "HOLD", has_price |-> FALSE, current_price |-> 0,
                      option_type |-> "absent", reason |-> "Insufficient data"],
          added |-> FALSE]
    ELSE LET fast_ema == calculate_ema(df.close, fast_ema_period)
             slow_ema == calculate_ema(df.close, slow_ema_period)
             cross == detect_crossover(fast_ema, slow_ema)
             base == [has_price |-> TRUE,
                      current_price |-> df.close[Len(df.close)],
                      fast_ema |-> fast_ema[Len(fast_ema)],
                      slow_ema |-> slow_ema[Len(slow_ema)],
                      signal_type |-> cross.signal_type,
                      crossover |-> cross.crossover]
             signal ==
                 IF cross.crossover = "bullish_cross"
                 THEN base @@ [action |-> "BUY_CALL", option_type |-> "CE",
                               reason |-> "Bullish EMA crossover"]
                 ELSE IF cross.crossover = "bearish_cross"
                 THEN base @@ [action |-> "BUY_PUT", option_type |-> "PE",
                               reason |-> "Bearish EMA crossover"]
                 ELSE IF pos # None
                 THEN IF _should_exit_position(pos, cross.signal_type)
                      THEN base @@ [action |-> "EXIT", option_type |-> "absent",
                                    reason |-> "Exit signal from opposite trend"]
                      ELSE base @@ [action |-> "HOLD", option_type |-> "absent",
                                    reason |-> "Continue holding position"]
                 ELSE base @@ [action |-> "HOLD", option_type |-> "absent",
                               reason |-> "No crossover detected"]
         IN  [signal |-> signal, added |-> TRUE]

generate_signal(df, pos) ==
    IF df = Raised
    THEN [signal |-> [action |-> "HOLD", has_price |-> FALSE, current_price |-> 0,
                      option_type |-> "absent", reason |-> "Error"],
          added |-> FALSE]
    ELSE IF df = None \/ Len(df.close) < slow_ema_period + 5
    THEN [signal |-> [action |-> "HOLD", has_price |-> FALSE, current_price |-> 0,
                      option_type |-> "absent", reason |-> "Insufficient data"],
          added |-> FALSE]
    ELSE LET fast_ema == calculate_ema(df.close, fast_ema_period)
             slow_ema == calculate_ema(df.close, slow_ema_period)
             cross == detect_crossover(fast_ema, slow_ema)
             base == [has_price |-> TRUE,
                      current_price |-> df.close[Len(df.close)],
                      fast_ema |-> fast_ema[Len(fast_ema)],
                      slow_ema |-> slow_ema[Len(slow_ema)],
                      signal_type |-> cross.signal_type,
                      crossover |-> cross.crossover]
             signal ==
                 IF cross.crossover = "bullish_cross"
                 THEN base @@ [action |-> "BUY_CALL", option_type |-> "CE",
                               reason |-> "Bullish EMA crossover"]
                 ELSE IF cross.crossover = "bearish_cross"
                 THEN base @@ [action |-> "BUY_PUT", option_type |-> "PE",
                               reason |-> "Bearish EMA crossover"]
                 ELSE IF pos # None
                 THEN IF _should_exit_position(pos, cross.signal_type)
                      THEN base @@ [action |-> "EXIT", option_type |-> "absent",
                                    reason |-> "Exit signal from opposite trend"]
                      ELSE base @@ [action |-> "HOLD", option_type |-> "absent",
                                    reason |-> "Continue holding position"]
                 ELSE base @@ [action |-> "HOLD", option_type |-> "absent",
                               reason |-> "No crossover detected"]
         IN  [signal |-> signal, added |-> TRUE]

(***************************************************************************)
(* BaseStrategy.update_positions and close_all_positions.                  *)
(***************************************************************************)
BrokerPosition(netQty) == [symbol |-> "NSE:SBIN-EQ", netQty |-> netQty]

\* the netPositions lists the broker reports: none, one long, one flat with one short
NetPositionLists ==
    {<<>>, <<BrokerPosition(2)>>, <<BrokerPosition(0), BrokerPosition(-1)>>}

\* fyers_client.get_positions(): an envelope, None, or an exception
PositionResponses ==
    {None, [s |-> "error"], [raised |-> TRUE]}
    \cup {[s |-> "ok", netPositions |-> l] : l \in NetPositionLists}

update_positions(cache, response) ==
    IF "s" \in DOMAIN response /\ response.s = "ok"
    THEN response.netPositions
    ELSE cache

\* the quantity taken as it is reported
Mut_Abs_identity(n) == n

Abs(n) == IF n < 0 THEN -n ELSE n

\* the loop of close_all_positions over self.positions
RECURSIVE CloseLoop(_, _, _, _, _)
CloseLoop(ps, log, orders, results, order_status) ==
    IF ps = <<>>
    THEN [trade_log |-> log, broker_orders |-> orders, results |-> results]
    ELSE LET position == Head(ps)
             symbol == position.symbol
             quantity == Abs(position.netQty)
             side == IF position.netQty > 0 THEN -1 ELSE 1
         IN  IF quantity > 0
             THEN CloseLoop(Tail(ps),
                            log_trade(log, [action |-> "CLOSE", symbol |-> symbol,
                                            quantity |-> quantity,
                                            result |-> [s |-> order_status]]),
                            Append(orders, [symbol |-> symbol, side |-> side,
                                            quantity |-> quantity,
                                            order_type |-> "MARKET"]),
                            Append(results, [s |-> order_status]),
                            order_status)
             ELSE CloseLoop(Tail(ps), log, orders, results, order_status)

close_all_positions(cache, log, orders, response, order_status) ==
    LET updated == update_positions(cache, response)
        done == CloseLoop(updated, log, orders, <<>>, order_status)
    IN  [positions |-> updated, trade_log |-> done.trade_log,
         broker_orders |-> done.broker_orders, result |-> done.results]

(***************************************************************************)
(* WebhookServer (src/webhook/server.py).                                  *)
(*                                                                         *)
(* A JSON value is a record tagged with its type; Absent is a key the      *)
(* payload does not carry.                                                 *)
(***************************************************************************)
WEBHOOK_TOKEN == ""     \* config.WEBHOOK_TOKEN with no WEBHOOK_TOKEN in the environment

LogCap == 1000

Secrets == {"", "s3cr3t"}

Absent == [t |-> "absent"]
Null == [t |-> "null"]
Str(s) == [t |-> "str", v |-> s]

\* a truthiness test that takes any string, the empty one included, as set
Mut_Truthy_any_string(x) == x.t = "str"

\* Python truthiness of what data.get(key) or data.get(key, '') returns
Truthy(x) == x.t = "str" /\ x.v # ""

\* str.upper on the strings the payloads carry
Upper(s) ==
    CASE s = "buy" -> "BUY"
      [] s = "Sell" -> "SELL"
      [] s = "hold" -> "HOLD"
      [] OTHER -> s

TokenValues == {Absent, Null, Str(""), Str("s3cr3t"), Str("wrong")}
ActionValues == {Absent, Null, Str(""), Str("buy"), Str("Sell"), Str("EXIT"), Str("hold")}
SymbolValues == {Absent, Null, Str(""), Str("NSE:SBIN-EQ")}
OrderTypeValues == {Absent, Null}

\* what request.get_json() hands to the handler: an exception, or the parsed body
Payloads ==
    {[kind |-> k] : k \in {"raised", "null", "empty_object", "empty_array",
                           "array", "string", "number"}}
    \cup
    [kind : {"object"}, token : TokenValues, action : ActionValues,
     symbol : SymbolValues, order_type : OrderTypeValues, quantity : {1}, price : {0}]

\* request.get_json(): a request without a JSON body yields None or raises,
\* depending on the installed Flask; a JSON body yields its value
Requests ==
    {[body |-> "absent"]} \cup {[body |-> "json", data |-> d] : d \in Payloads \ {[kind |-> "raised"]}}

get_json(req) ==
    IF req.body = "absent"
    THEN {[kind |-> "null"], [kind |-> "raised"]}
    ELSE {req.data}

TradeCallbacks == {"none", "demo", "raises"}

HttpResponse(code, status, message) ==
    [code |-> code, status |-> status, message |-> message]

\* _add_log keeping the oldest LogCap entries instead of the newest
Mut_add_log_drop_newest(logs, log_entry) ==
    LET appended == Append(logs, log_entry)
    IN  IF Len(appended) > LogCap THEN SubSeq(appended, 1, LogCap) ELSE appended

\* WebhookServer._add_log
_add_log(logs, log_entry) ==
    LET appended == Append(logs, log_entry)
    IN  IF Len(appended) > LogCap
        THEN SubSeq(appended, Len(appended) - LogCap + 1, Len(appended))
        ELSE appended

\* variants of the token test used to probe the properties below
Mut_token_accepted_any(request_token, secret) == TRUE

Mut_token_accepted_equal(request_token, secret) == request_token = Str(secret)

\* the token test of the handler: True when the request is let through
token_accepted(request_token, secret) ==
    ~(~Truthy(request_token) \/ request_token # Str(secret))

\* app.py webhook_trade_callback
webhook_trade_callback(webhook_data, mode) == [status |-> "received", mode |-> mode]

\* what one invocation of trade_callback is recorded as: its argument, and
\* whether that entry was already the newest entry of webhook_logs
CallbackCall(webhook_log, logs) ==
    [arg |-> webhook_log,
     in_log |-> Len(logs) > 0 /\ logs[Len(logs)] = webhook_log]

\* variants of the handler's accepted path used to probe the properties below
Mut_record_and_dispatch_callback_first(webhook_log, callback, logs, calls, mode) ==
    IF callback = "none"
    THEN [added |-> <<webhook_log>>,
          webhook_logs |-> _add_log(logs, webhook_log), callback_calls |-> calls,
          response |-> HttpResponse(200, "success",
                                    "Webhook received but no callback set")]
    ELSE IF callback = "raises"
    THEN [added |-> <<>>, webhook_logs |-> logs,
          callback_calls |-> Append(calls, CallbackCall(webhook_log, logs)),
          response |-> HttpResponse(500, "error", "Trade execution failed")]
    ELSE [added |-> <<webhook_log>>,
          webhook_logs |-> _add_log(logs, webhook_log),
          callback_calls |-> Append(calls, CallbackCall(webhook_log, logs)),
          response |-> HttpResponse(200, "success", "Trade executed")
              @@ [result |-> webhook_trade_callback(webhook_log, mode)]]

Mut_record_and_dispatch_needs_callback(webhook_log, callback, logs, calls, mode) ==
    LET logged == _add_log(logs, webhook_log)
    IN  IF callback = "none"
        THEN [added |-> <<>>, webhook_logs |-> logs, callback_calls |-> calls,
              response |-> HttpResponse(500, "error", "Trade execution failed")]
        ELSE IF callback = "raises"
        THEN [added |-> <<webhook_log>>,
              webhook_logs |-> logged,
              callback_calls |-> Append(calls, CallbackCall(webhook_log, logged)),
              response |-> HttpResponse(500, "error", "Trade execution failed")]
        ELSE [added |-> <<webhook_log>>,
              webhook_logs |-> logged,
              callback_calls |-> Append(calls, CallbackCall(webhook_log, logged)),
              response |-> HttpResponse(200, "success", "Trade executed")
                  @@ [result |-> webhook_trade_callback(webhook_log, mode)]]

\* the handler's lines 91-123: log the validated command, then hand it to the
\* callback if one is registered
record_and_dispatch(webhook_log, callback, logs, calls, mode) ==
    LET logged == _add_log(logs, webhook_log)
    IN  IF callback = "none"
        THEN [added |-> <<webhook_log>>,
              webhook_logs |-> logged, callback_calls |-> calls,
              response |-> HttpResponse(200, "success",
                                        "Webhook received but no callback set")]
        ELSE IF callback = "raises"
        THEN [added |-> <<webhook_log>>,
              webhook_logs |-> logged,
              callback_calls |-> Append(calls, CallbackCall(webhook_log, logged)),
              response |-> HttpResponse(500, "error", "Trade execution failed")]
        ELSE [added |-> <<webhook_log>>,
              webhook_logs |-> logged,
              callback_calls |-> Append(calls, CallbackCall(webhook_log, logged)),
              response |-> HttpResponse(200, "success", "Trade executed")
                  @@ [result |-> webhook_trade_callback(webhook_log, mode)]]

(***************************************************************************)
(* The POST /webhook handler on the value get_json produced.  Returns the  *)
(* log, the callback invocations and the response it leaves.               *)
(***************************************************************************)
webhook(data, secret, callback, logs, calls, mode) ==
    LET Reject(code, message) ==
            [added |-> <<>>, webhook_logs |-> logs, callback_calls |-> calls,
             response |-> HttpResponse(code, "error", message)]
    IN  IF data.kind = "raised"
        THEN Reject(500, "exception")
        ELSE IF data.kind \in {"null", "empty_object", "empty_array"}
        THEN Reject(400, "No data received")
        ELSE IF data.kind # "object"
        THEN Reject(500, "exception")       \* data.get: AttributeError
        ELSE IF ~token_accepted(data.token, secret)
        THEN Reject(401, "Invalid token")
        ELSE IF data.action.t = "null"
        THEN Reject(500, "exception")       \* None.upper(): AttributeError
        ELSE IF data.order_type.t = "null"
        THEN Reject(500, "exception")       \* None.upper(): AttributeError
        ELSE LET action == IF data.action = Absent THEN "" ELSE Upper(data.action.v)
                 symbol == IF data.symbol = Absent THEN Str("") ELSE data.symbol
                 order_type == IF data.order_type = Absent
                               THEN "MARKET" ELSE Upper(data.order_type.v)
             IN  IF action = "" \/ ~Truthy(symbol)
                 THEN Reject(400, "Missing required fields")
                 ELSE IF action \notin {"BUY", "SELL", "EXIT"}
                 THEN Reject(400, "Invalid action")
                 ELSE record_and_dispatch([action |-> action, symbol |-> symbol.v,
                                           quantity |-> data.quantity,
                                           order_type |-> order_type,
                                           price |-> data.price],
                                          callback, logs, calls, mode)

\* BaseStrategy.__init__ and EMAOptionsStrategy.__init__
StrategyInit ==
    /\ is_running = FALSE
    /\ positions = <<>>
    /\ signals = <<>>
    /\ trade_log = <<>>
    /\ current_position = None
    /\ broker_orders = <<>>
    /\ result = None
    /\ fetched = FALSE

\* WebhookServer.__init__(token=secret)
ServerInit(secret) ==
    /\ token = (IF secret # "" THEN secret ELSE WEBHOOK_TOKEN)
    /\ trade_callback = "none"
    /\ webhook_logs = <<>>
    /\ callback_calls = <<>>
    /\ accepted = <<>>
    /\ request = None
    /\ http_response = None

\* the callers of execute_signal that may overlap: the scheduled run_iteration
\* (its call at line 304) and a handler thread of the webhook server
Threads == {"scheduler", "handler"}

NoFrame == [signal |-> None, entry_price |-> 0, quantity |-> 0, symbol |-> None,
            nested |-> FALSE]

ThreadsInit ==
    /\ pc = [t \in Threads |-> "idle"]
    /\ frame = [t \in Threads |-> NoFrame]

\* no call of detect_crossover on its own
\* the handler threads of the webhook server that may overlap
Handlers == {"h1", "h2"}

\* WebhookServer.__init__ (started = FALSE), or the server after its first
\* start(), with no handler inside _add_log
ListenerInit(started) ==
    /\ server_is_running = started
    /\ server_thread = (IF started THEN 1 ELSE 0)
    /\ add_log_pc = [h \in Handlers |-> "idle"]
    /\ add_log_local = [h \in Handlers |-> <<>>]

IndicatorsInit ==
    /\ fast_arg = <<>>
    /\ slow_arg = <<>>
    /\ detected = None

Init ==
    /\ StrategyInit
    /\ TRADING_MODE \in Modes
    /\ ServerInit("")
    /\ ThreadsInit
    /\ IndicatorsInit
    /\ ListenerInit(FALSE)

\* BaseStrategy.start
Start ==
    /\ is_running' = TRUE
    /\ result' = None
    /\ UNCHANGED <<positions, signals, trade_log, current_position, TRADING_MODE,
                   broker_orders>>
    /\ UNCHANGED webhookVars
    /\ UNCHANGED threadVars
    /\ fetched' = FALSE
    /\ UNCHANGED indicatorVars
    /\ UNCHANGED serverVars

\* stop() that also abandons the executions under way
Mut_Stop_cancels_in_flight ==
    /\ is_running' = FALSE
    /\ result' = None
    /\ pc' = [t \in Threads |-> "idle"]
    /\ frame' = [t \in Threads |-> NoFrame]
    /\ UNCHANGED <<positions, signals, trade_log, current_position, TRADING_MODE,
                   broker_orders>>
    /\ UNCHANGED webhookVars
    /\ fetched' = FALSE
    /\ UNCHANGED indicatorVars
    /\ UNCHANGED serverVars

\* BaseStrategy.stop
Stop ==
    /\ is_running' = FALSE
    /\ result' = None
    /\ UNCHANGED <<positions, signals, trade_log, current_position, TRADING_MODE,
                   broker_orders>>
    /\ UNCHANGED webhookVars
    /\ UNCHANGED threadVars
    /\ fetched' = FALSE
    /\ UNCHANGED indicatorVars
    /\ UNCHANGED serverVars

\* BaseStrategy.reset
Reset ==
    /\ is_running' = FALSE
    /\ positions' = <<>>
    /\ signals' = <<>>
    /\ trade_log' = <<>>
    /\ result' = None
    /\ UNCHANGED <<current_position, TRADING_MODE, broker_orders>>
    /\ UNCHANGED webhookVars
    /\ UNCHANGED threadVars
    /\ fetched' = FALSE
    /\ UNCHANGED indicatorVars
    /\ UNCHANGED serverVars

\* execute_signal sending every entry to the broker as well
Mut_ExecuteSignal_places_order(signal) ==
    LET out == execute_signal(current_position, trade_log, TRADING_MODE, signal)
        sent == IF signal.action \in {"BUY_CALL", "BUY_PUT"}
                THEN Append(broker_orders,
                            [symbol |-> underlying_symbol, side |-> 1,
                             quantity |-> position_size, order_type |-> "MARKET"])
                ELSE broker_orders
    IN  /\ Len(out.trade_log) <= MaxTrades
        /\ Len(sent) <= MaxOrders
        /\ current_position' = out.current_position
        /\ trade_log' = out.trade_log
        /\ result' = out.result
        /\ broker_orders' = sent
        /\ UNCHANGED <<is_running, positions, signals, TRADING_MODE>>
        /\ UNCHANGED webhookVars
        /\ UNCHANGED threadVars
        /\ fetched' = FALSE
        /\ UNCHANGED indicatorVars
        /\ UNCHANGED serverVars

\* A call of the public execute_signal with a signal built by the caller.
ExecuteSignal(signal) ==
    LET out == execute_signal(current_position, trade_log, TRADING_MODE, signal)
    IN  /\ Len(out.trade_log) <= MaxTrades
        /\ current_position' = out.current_position
        /\ trade_log' = out.trade_log
        /\ result' = out.result
        /\ UNCHANGED <<is_running, positions, signals, TRADING_MODE, broker_orders>>
        /\ UNCHANGED webhookVars
        /\ UNCHANGED threadVars
        /\ fetched' = FALSE
        /\ UNCHANGED indicatorVars
        /\ UNCHANGED serverVars

\* run_iteration without the test of is_running
Mut_RunIteration_ignores_stop(df) ==
    LET gen == generate_signal(df, current_position)
        out == execute_signal(current_position, trade_log, TRADING_MODE, gen.signal)
        history == IF gen.added THEN add_signal(signals, gen.signal) ELSE signals
    IN  /\ Len(out.trade_log) <= MaxTrades
        /\ Len(history) <= MaxSignals
        /\ signals' = history
        /\ current_position' = out.current_position
        /\ trade_log' = out.trade_log
        /\ result' = [status |-> "success", signal |-> gen.signal,
                      execution |-> out.result]
        /\ UNCHANGED <<is_running, positions, TRADING_MODE, broker_orders>>
        /\ UNCHANGED webhookVars
        /\ UNCHANGED threadVars
        /\ fetched' = TRUE
        /\ UNCHANGED indicatorVars
        /\ UNCHANGED serverVars

\* EMAOptionsStrategy.run_iteration, df being what the market data provider returns
RunIteration(df) ==
    IF ~is_running
    THEN /\ result' = Result("stopped", "Strategy not running")
         /\ UNCHANGED <<is_running, positions, signals, trade_log, current_position,
                        TRADING_MODE, broker_orders>>
         /\ UNCHANGED webhookVars
         /\ UNCHANGED threadVars
         /\ fetched' = FALSE
         /\ UNCHANGED indicatorVars
         /\ UNCHANGED serverVars
    ELSE LET gen == generate_signal(df, current_position)
             out == execute_signal(current_position, trade_log, TRADING_MODE, gen.signal)
             history == IF gen.added THEN add_signal(signals, gen.signal) ELSE signals
         IN  /\ Len(out.trade_log) <= MaxTrades
             /\ Len(history) <= MaxSignals
             /\ signals' = history
             /\ current_position' = out.current_position
             /\ trade_log' = out.trade_log
             /\ result' = [status |-> "success", signal |-> gen.signal,
                           execution |-> out.result]
             /\ UNCHANGED <<is_running, positions, TRADING_MODE, broker_orders>>
             /\ UNCHANGED webhookVars
             /\ UNCHANGED threadVars
             /\ fetched' = TRUE
             /\ UNCHANGED indicatorVars
             /\ UNCHANGED serverVars

\* BaseStrategy.close_all_positions, response being what get_positions returns and
\* order_status the status of the envelopes place_order returns
CloseAllPositions(response, order_status) ==
    LET out == close_all_positions(positions, trade_log, broker_orders, response,
                                   order_status)
    IN  /\ Len(out.trade_log) <= MaxTrades
        /\ Len(out.broker_orders) <= MaxOrders
        /\ positions' = out.positions
        /\ trade_log' = out.trade_log
        /\ broker_orders' = out.broker_orders
        /\ result' = [closed |-> out.result]
        /\ UNCHANGED <<is_running, signals, current_position, TRADING_MODE>>
        /\ UNCHANGED webhookVars
        /\ UNCHANGED threadVars
        /\ fetched' = FALSE
        /\ UNCHANGED indicatorVars
        /\ UNCHANGED serverVars

\* BaseStrategy.get_status; the 'config' key, which nothing changes, is left out
GetStatus ==
    /\ result' = [name |-> "EMA Options Strategy",
                  is_running |-> is_running,
                  positions |-> Len(positions),
                  total_trades |-> Len(trade_log)]
    /\ UNCHANGED <<is_running, positions, signals, trade_log, current_position,
                   TRADING_MODE, broker_orders>>
    /\ UNCHANGED webhookVars
    /\ UNCHANGED threadVars
    /\ fetched' = FALSE
    /\ UNCHANGED indicatorVars
    /\ UNCHANGED serverVars

\* app.py strategy_page: initialising a strategy assigns config.TRADING_MODE
SetTradingMode(mode) ==
    /\ TRADING_MODE' = mode
    /\ UNCHANGED <<is_running, positions, signals, trade_log, current_position,
                   broker_orders, result>>
    /\ UNCHANGED webhookVars
    /\ UNCHANGED threadVars
    /\ UNCHANGED providerVars
    /\ UNCHANGED indicatorVars
    /\ UNCHANGED serverVars

(***************************************************************************)
(* Spec: the public operations of one strategy, called one after another,  *)
(* under the trading mode the process started with.                        *)
(***************************************************************************)
Next ==
    \/ Start
    \/ Stop
    \/ Reset
    \/ \E signal \in CommandSignals : ExecuteSignal(signal)
    \/ \E df \in DataFrames : RunIteration(df)
    \/ \E response \in PositionResponses, order_status \in {"ok", "error"} :
           CloseAllPositions(response, order_status)

Spec == Init /\ [][Next]_vars

(***************************************************************************)
(* ExecSpec: execute_signal on every shape of signal, with resets and with *)
(* the global trading mode reassigned between calls.                       *)
(***************************************************************************)
ExecNext ==
    \/ Reset
    \/ \E signal \in SignalInputs : ExecuteSignal(signal)
    \/ \E mode \in Modes : SetTradingMode(mode)

ExecSpec == Init /\ [][ExecNext]_vars

(***************************************************************************)
(* OpsSpec: the operations that reach the trade ledger or the broker       *)
(* (execute_signal, close_all_positions), with start, stop and get_status   *)
(* called in between, under the trading mode the process started with.     *)
(***************************************************************************)
OpsNext ==
    \/ Start
    \/ Stop
    \/ \E signal \in CommandSignals : ExecuteSignal(signal)
    \/ \E response \in PositionResponses, order_status \in {"ok", "error"} :
           CloseAllPositions(response, order_status)
    \/ GetStatus

OpsSpec == Init /\ [][OpsNext]_vars

(***************************************************************************)
(* IterSpec: the scheduled path alone: start, stop, reset and              *)
(* run_iteration on every frame the provider may return, in either mode.   *)
(***************************************************************************)
IterNext ==
    \/ Start
    \/ Stop
    \/ Reset
    \/ \E df \in FetchResults : RunIteration(df)
    \/ \E mode \in Modes : SetTradingMode(mode)

IterSpec == Init /\ [][IterNext]_vars

(***************************************************************************)
(* WebhookSpec: one webhook server, its requests handled one at a time.    *)
(***************************************************************************)
WebhookInit ==
    /\ StrategyInit
    /\ TRADING_MODE = "PAPER"
    /\ \E secret \in Secrets : ServerInit(secret)
    /\ ThreadsInit
    /\ IndicatorsInit
    /\ ListenerInit(TRUE)

\* a client sends a POST /webhook request
Post(req) ==
    /\ request = None
    /\ request' = req
    /\ UNCHANGED <<token, trade_callback, webhook_logs, callback_calls, accepted,
                   http_response>>
    /\ UNCHANGED strategyVars
    /\ UNCHANGED threadVars
    /\ UNCHANGED providerVars
    /\ UNCHANGED indicatorVars
    /\ UNCHANGED serverVars

\* POST /webhook: the handler runs on the request in flight
Webhook ==
    /\ request # None
    /\ \E data \in get_json(request) :
        LET out == webhook(data, token, trade_callback, webhook_logs, callback_calls,
                           TRADING_MODE)
        IN  /\ Len(out.webhook_logs) <= MaxLogs
            /\ Len(out.callback_calls) <= MaxLogs
            /\ Len(accepted \o out.added) <= MaxLogs
            /\ accepted' = accepted \o out.added
            /\ webhook_logs' = out.webhook_logs
            /\ callback_calls' = out.callback_calls
            /\ http_response' = out.response
    /\ request' = None
    /\ UNCHANGED <<token, trade_callback>>
    /\ UNCHANGED strategyVars
    /\ UNCHANGED threadVars
    /\ UNCHANGED providerVars
    /\ UNCHANGED indicatorVars
    /\ UNCHANGED serverVars

\* WebhookServer.set_trade_callback, between two requests
SetTradeCallback(callback) ==
    /\ request = None
    /\ trade_callback' = callback
    /\ UNCHANGED <<token, webhook_logs, callback_calls, accepted, request, http_response>>
    /\ UNCHANGED strategyVars
    /\ UNCHANGED threadVars
    /\ UNCHANGED providerVars
    /\ UNCHANGED indicatorVars
    /\ UNCHANGED serverVars

\* WebhookServer.clear_logs, between two requests
ClearLogs ==
    /\ request = None
    /\ webhook_logs' = <<>>
    /\ UNCHANGED <<token, trade_callback, callback_calls, accepted, request, http_response>>
    /\ UNCHANGED strategyVars
    /\ UNCHANGED threadVars
    /\ UNCHANGED providerVars
    /\ UNCHANGED indicatorVars
    /\ UNCHANGED serverVars

WebhookNext ==
    \/ \E req \in Requests : Post(req)
    \/ Webhook
    \/ \E callback \in TradeCallbacks : SetTradeCallback(callback)
    \/ ClearLogs

WebhookSpec == WebhookInit /\ [][WebhookNext]_vars

(***************************************************************************)
(* LogSpec: _add_log around the cap.  The server starts with a log two     *)
(* entries short of the cap, as it is after that many identical commands   *)
(* were accepted with no callback registered.                              *)
(***************************************************************************)
LogEntries ==
    {[action |-> a, symbol |-> "NSE:SBIN-EQ", quantity |-> 1, order_type |-> "MARKET",
      price |-> 0] : a \in {"BUY", "SELL", "EXIT"}}

LogInit ==
    /\ StrategyInit
    /\ TRADING_MODE = "PAPER"
    /\ ThreadsInit
    /\ IndicatorsInit
    /\ ListenerInit(TRUE)
    /\ token = WEBHOOK_TOKEN
    /\ trade_callback = "none"
    /\ \E log_entry \in LogEntries :
        /\ webhook_logs = [i \in 1..(LogCap - 2) |-> log_entry]
        /\ accepted = [i \in 1..(LogCap - 2) |-> log_entry]
    /\ callback_calls = <<>>
    /\ request = None
    /\ http_response = None

\* WebhookServer._add_log(log_entry)
AddLog(log_entry) ==
    /\ Len(accepted) < LogCap + MaxOverflow
    /\ webhook_logs' = _add_log(webhook_logs, log_entry)
    /\ accepted' = Append(accepted, log_entry)
    /\ UNCHANGED <<token, trade_callback, callback_calls, request, http_response>>
    /\ UNCHANGED strategyVars
    /\ UNCHANGED threadVars
    /\ UNCHANGED providerVars
    /\ UNCHANGED indicatorVars
    /\ UNCHANGED serverVars

LogNext == \E log_entry \in LogEntries : AddLog(log_entry)

LogSpec == LogInit /\ [][LogNext]_vars

(***************************************************************************)
(* ConcSpec: execute_signal run by threads that share one strategy object, *)
(* one step per access to self.current_position, self.trade_log or         *)
(* config.TRADING_MODE.  The code takes no lock, so the steps of the       *)
(* threads interleave freely.                                              *)
(***************************************************************************)
ConcSignals ==
    {[action |-> a, has_price |-> FALSE, current_price |-> 0, option_type |-> "absent"] :
        a \in {"HOLD", "SELL", "EXIT"}}
    \cup
    {[action |-> "BUY_CALL", has_price |-> TRUE, current_price |-> 100, option_type |-> "CE"],
     [action |-> "BUY_PUT", has_price |-> TRUE, current_price |-> 110, option_type |-> "PE"]}

ConcInit ==
    /\ StrategyInit
    /\ TRADING_MODE = "PAPER"
    /\ ServerInit("")
    /\ ThreadsInit
    /\ IndicatorsInit
    /\ ListenerInit(FALSE)

\* the thread returns from execute_signal
Return(t, value) ==
    /\ result' = value
    /\ pc' = [pc EXCEPT ![t] = "idle"]
    /\ frame' = [frame EXCEPT ![t] = NoFrame]

\* an exception inside _execute_entry/_execute_exit, caught at lines 154-156
Raise(t) == Return(t, Result("error", "exception"))

\* _execute_exit returns: to _execute_entry line 173 when called from line 171
\* (which drops the value), else out of execute_signal
ExitReturn(t, value) ==
    IF frame[t].nested
    THEN /\ pc' = [pc EXCEPT ![t] = "entry_200"]
         /\ UNCHANGED <<frame, result>>
    ELSE Return(t, value)

\* execute_signal lines 138-152: the dispatch on signal['action']
Call(t, signal) ==
    /\ pc[t] = "idle"
    /\ Len(trade_log) < MaxConcTrades
    /\ IF signal.action = "HOLD"
       THEN /\ result' = Result("success", "Holding position")
            /\ UNCHANGED <<pc, frame>>
       ELSE IF signal.action \in {"BUY_CALL", "BUY_PUT"}
       THEN /\ pc' = [pc EXCEPT ![t] = "entry_169"]
            /\ frame' = [frame EXCEPT ![t] = [NoFrame EXCEPT !.signal = signal]]
            /\ UNCHANGED result
       ELSE IF signal.action = "EXIT"
       THEN /\ pc' = [pc EXCEPT ![t] = "exit_226"]
            /\ frame' = [frame EXCEPT ![t] = [NoFrame EXCEPT !.signal = signal]]
            /\ UNCHANGED result
       ELSE /\ result' = Result("error", "Unknown action")
            /\ UNCHANGED <<pc, frame>>
    /\ UNCHANGED <<is_running, positions, signals, trade_log, current_position,
                   TRADING_MODE, broker_orders>>
    /\ UNCHANGED webhookVars
    /\ UNCHANGED providerVars
    /\ UNCHANGED indicatorVars
    /\ UNCHANGED serverVars

\* _execute_entry line 169: if self.current_position
Entry169(t) ==
    /\ pc[t] = "entry_169"
    /\ IF current_position # None
       THEN /\ pc' = [pc EXCEPT ![t] = "exit_226"]
            /\ frame' = [frame EXCEPT ![t].nested = TRUE]
       ELSE /\ pc' = [pc EXCEPT ![t] = "entry_200"]
            /\ UNCHANGED frame
    /\ UNCHANGED strategyVars
    /\ UNCHANGED webhookVars
    /\ UNCHANGED providerVars
    /\ UNCHANGED indicatorVars
    /\ UNCHANGED serverVars

\* _execute_entry line 200: if config.TRADING_MODE == 'PAPER', else lines 211-214
Entry200(t) ==
    /\ pc[t] = "entry_200"
    /\ IF TRADING_MODE = "PAPER"
       THEN /\ pc' = [pc EXCEPT ![t] = "entry_202"]
            /\ UNCHANGED <<frame, result>>
       ELSE Return(t, Result("error",
                             "Option symbol construction required for live trading"))
    /\ UNCHANGED <<is_running, positions, signals, trade_log, current_position,
                   TRADING_MODE, broker_orders>>
    /\ UNCHANGED webhookVars
    /\ UNCHANGED providerVars
    /\ UNCHANGED indicatorVars
    /\ UNCHANGED serverVars

\* _execute_entry line 202: self.current_position = entry_info
Entry202(t) ==
    /\ pc[t] = "entry_202"
    /\ current_position' = EntryInfo(frame[t].signal)
    /\ pc' = [pc EXCEPT ![t] = "entry_203"]
    /\ UNCHANGED <<is_running, positions, signals, trade_log, TRADING_MODE,
                   broker_orders, result, frame>>
    /\ UNCHANGED webhookVars
    /\ UNCHANGED providerVars
    /\ UNCHANGED indicatorVars
    /\ UNCHANGED serverVars

\* _execute_entry lines 203-208: self.log_trade(ENTRY) and the return
Entry203(t) ==
    /\ pc[t] = "entry_203"
    /\ trade_log' = log_trade(trade_log, [type |-> "ENTRY", mode |-> "PAPER"]
                                         @@ EntryInfo(frame[t].signal))
    /\ Return(t, Result("success", "Paper trade executed"))
    /\ UNCHANGED <<is_running, positions, signals, current_position, TRADING_MODE,
                   broker_orders>>
    /\ UNCHANGED webhookVars
    /\ UNCHANGED providerVars
    /\ UNCHANGED indicatorVars
    /\ UNCHANGED serverVars

\* _execute_exit line 226: if not self.current_position
Exit226(t) ==
    /\ pc[t] = "exit_226"
    /\ IF current_position = None
       THEN ExitReturn(t, Result("success", "No position to exit"))
       ELSE /\ pc' = [pc EXCEPT ![t] = "exit_230"]
            /\ UNCHANGED <<frame, result>>
    /\ UNCHANGED <<is_running, positions, signals, trade_log, current_position,
                   TRADING_MODE, broker_orders>>
    /\ UNCHANGED webhookVars
    /\ UNCHANGED providerVars
    /\ UNCHANGED indicatorVars
    /\ UNCHANGED serverVars

\* _execute_exit line 230: entry_price = self.current_position.get('entry_price', 0)
Exit230(t) ==
    /\ pc[t] = "exit_230"
    /\ IF current_position = None
       THEN Raise(t)
       ELSE /\ frame' = [frame EXCEPT ![t].entry_price = current_position.entry_price]
            /\ pc' = [pc EXCEPT ![t] = "exit_232"]
            /\ UNCHANGED result
    /\ UNCHANGED <<is_running, positions, signals, trade_log, current_position,
                   TRADING_MODE, broker_orders>>
    /\ UNCHANGED webhookVars
    /\ UNCHANGED providerVars
    /\ UNCHANGED indicatorVars
    /\ UNCHANGED serverVars

\* _execute_exit line 232: quantity = self.current_position.get('quantity', 0)
Exit232(t) ==
    /\ pc[t] = "exit_232"
    /\ IF current_position = None
       THEN Raise(t)
       ELSE /\ frame' = [frame EXCEPT ![t].quantity = current_position.quantity]
            /\ pc' = [pc EXCEPT ![t] = "exit_238"]
            /\ UNCHANGED result
    /\ UNCHANGED <<is_running, positions, signals, trade_log, current_position,
                   TRADING_MODE, broker_orders>>
    /\ UNCHANGED webhookVars
    /\ UNCHANGED providerVars
    /\ UNCHANGED indicatorVars
    /\ UNCHANGED serverVars

\* _execute_exit line 238: 'symbol': self.current_position['symbol']
Exit238(t) ==
    /\ pc[t] = "exit_238"
    /\ IF current_position = None
       THEN Raise(t)
       ELSE /\ frame' = [frame EXCEPT ![t].symbol = current_position.symbol]
            /\ pc' = [pc EXCEPT ![t] = "exit_249"]
            /\ UNCHANGED result
    /\ UNCHANGED <<is_running, positions, signals, trade_log, current_position,
                   TRADING_MODE, broker_orders>>
    /\ UNCHANGED webhookVars
    /\ UNCHANGED providerVars
    /\ UNCHANGED indicatorVars
    /\ UNCHANGED serverVars

\* _execute_exit line 249: if config.TRADING_MODE == 'PAPER', else lines 260-262
Exit249(t) ==
    /\ pc[t] = "exit_249"
    /\ IF TRADING_MODE = "PAPER"
       THEN /\ pc' = [pc EXCEPT ![t] = "exit_251"]
            /\ UNCHANGED <<frame, result>>
       ELSE ExitReturn(t, Result("error", "Live trading not implemented in demo"))
    /\ UNCHANGED <<is_running, positions, signals, trade_log, current_position,
                   TRADING_MODE, broker_orders>>
    /\ UNCHANGED webhookVars
    /\ UNCHANGED providerVars
    /\ UNCHANGED indicatorVars
    /\ UNCHANGED serverVars

\* _execute_exit lines 251-255: self.log_trade(EXIT), exit_info built from the
\* values read at lines 230-238
Exit251(t) ==
    /\ pc[t] = "exit_251"
    /\ trade_log' = log_trade(trade_log, [type |-> "EXIT", mode |-> "PAPER"]
                                         @@ ExitInfo(frame[t], frame[t].signal))
    /\ pc' = [pc EXCEPT ![t] = "exit_256"]
    /\ UNCHANGED <<is_running, positions, signals, current_position, TRADING_MODE,
                   broker_orders, result, frame>>
    /\ UNCHANGED webhookVars
    /\ UNCHANGED providerVars
    /\ UNCHANGED indicatorVars
    /\ UNCHANGED serverVars

\* _execute_exit lines 256-257: self.current_position = None and the return
Exit256(t) ==
    /\ pc[t] = "exit_256"
    /\ current_position' = None
    /\ ExitReturn(t, Result("success", "Paper trade exit executed"))
    /\ UNCHANGED <<is_running, positions, signals, trade_log, TRADING_MODE,
                   broker_orders>>
    /\ UNCHANGED webhookVars
    /\ UNCHANGED providerVars
    /\ UNCHANGED indicatorVars
    /\ UNCHANGED serverVars

\* app.py line 348 while executions are under way
ConcSetTradingMode(mode) ==
    /\ TRADING_MODE' = mode
    /\ UNCHANGED <<is_running, positions, signals, trade_log, current_position,
                   broker_orders, result>>
    /\ UNCHANGED webhookVars
    /\ UNCHANGED threadVars
    /\ UNCHANGED providerVars
    /\ UNCHANGED indicatorVars
    /\ UNCHANGED serverVars

ConcNext ==
    \/ \E t \in Threads, signal \in ConcSignals : Call(t, signal)
    \/ \E t \in Threads : Entry169(t)
    \/ \E t \in Threads : Entry200(t)
    \/ \E t \in Threads : Entry202(t)
    \/ \E t \in Threads : Entry203(t)
    \/ \E t \in Threads : Exit226(t)
    \/ \E t \in Threads : Exit230(t)
    \/ \E t \in Threads : Exit232(t)
    \/ \E t \in Threads : Exit238(t)
    \/ \E t \in Threads : Exit249(t)
    \/ \E t \in Threads : Exit251(t)
    \/ \E t \in Threads : Exit256(t)
    \/ \E mode \in Modes : ConcSetTradingMode(mode)

ConcSpec == ConcInit /\ [][ConcNext]_vars

(***************************************************************************)
(* StopSpec: run_iteration called by threads that share one strategy       *)
(* object while start() and stop() are called on it.  The running check of *)
(* line 296, the data fetch and generate_signal are one step; the          *)
(* execution that follows proceeds by the steps of ConcSpec.  While a      *)
(* thread is inside execute_signal, result holds what execute_signal last  *)
(* handed back to line 303.                                                *)
(***************************************************************************)
\* run_iteration lines 296-303, up to the dispatch inside execute_signal
IterationCall(t, df) ==
    /\ pc[t] = "idle"
    /\ IF ~is_running
       THEN /\ result' = Result("stopped", "Strategy not running")
            /\ fetched' = FALSE
            /\ UNCHANGED indicatorVars
            /\ UNCHANGED serverVars
            /\ UNCHANGED <<signals, pc, frame>>
       ELSE LET gen == generate_signal(df, current_position)
                history == IF gen.added THEN add_signal(signals, gen.signal)
                           ELSE signals
            IN  /\ Len(history) <= MaxStopSignals
                /\ Len(trade_log) < MaxConcTrades
                /\ signals' = history
                /\ fetched' = TRUE
                /\ UNCHANGED indicatorVars
                /\ UNCHANGED serverVars
                /\ IF gen.signal.action = "HOLD"
                   THEN /\ result' = Result("success", "Holding position")
                        /\ UNCHANGED <<pc, frame>>
                   ELSE IF gen.signal.action \in {"BUY_CALL", "BUY_PUT"}
                   THEN /\ pc' = [pc EXCEPT ![t] = "entry_169"]
                        /\ frame' = [frame EXCEPT
                                        ![t] = [NoFrame EXCEPT !.signal = gen.signal]]
                        /\ UNCHANGED result
                   ELSE /\ pc' = [pc EXCEPT ![t] = "exit_226"]
                        /\ frame' = [frame EXCEPT
                                        ![t] = [NoFrame EXCEPT !.signal = gen.signal]]
                        /\ UNCHANGED result
    /\ UNCHANGED <<is_running, positions, trade_log, current_position, TRADING_MODE,
                   broker_orders>>
    /\ UNCHANGED webhookVars

StopNext ==
    \/ Start
    \/ Stop
    \/ \E t \in Threads, df \in DataFrames : IterationCall(t, df)
    \/ \E t \in Threads : Entry169(t)
    \/ \E t \in Threads : Entry200(t)
    \/ \E t \in Threads : Entry202(t)
    \/ \E t \in Threads : Entry203(t)
    \/ \E t \in Threads : Exit226(t)
    \/ \E t \in Threads : Exit230(t)
    \/ \E t \in Threads : Exit232(t)
    \/ \E t \in Threads : Exit238(t)
    \/ \E t \in Threads : Exit249(t)
    \/ \E t \in Threads : Exit251(t)
    \/ \E t \in Threads : Exit256(t)
    \/ \E mode \in Modes : ConcSetTradingMode(mode)

StopSpec == ConcInit /\ [][StopNext]_vars

(***************************************************************************)
(* CrossSpec: detect_crossover called on its own, on every pair of series  *)
(* of at most MaxSeries whole-number points.                               *)
(***************************************************************************)
SeriesValues == {[num |-> v, den |-> 1] : v \in 1..3}

SeriesInputs == UNION {[1..n -> SeriesValues] : n \in 0..MaxSeries}

CrossInit ==
    /\ StrategyInit
    /\ TRADING_MODE = "PAPER"
    /\ ServerInit("")
    /\ ThreadsInit
    /\ ListenerInit(FALSE)
    /\ fast_arg \in SeriesInputs
    /\ slow_arg \in SeriesInputs
    /\ detected = None

\* signal_type, crossover = detect_crossover(fast_arg, slow_arg)
DetectCrossover ==
    /\ detected' = detect_crossover(fast_arg, slow_arg)
    /\ UNCHANGED <<fast_arg, slow_arg>>
    /\ UNCHANGED strategyVars
    /\ UNCHANGED webhookVars
    /\ UNCHANGED threadVars
    /\ UNCHANGED providerVars
    /\ UNCHANGED serverVars

CrossNext == DetectCrossover

CrossSpec == CrossInit /\ [][CrossNext]_vars

(***************************************************************************)
(* HistorySpec: the operations that write the trade ledger and the signal  *)
(* history, with the two history reads called in between.                  *)
(***************************************************************************)
\* Python's lst[-limit:]: the last 'limit' items for a positive limit (the
\* whole list when it is shorter), the whole list for -0, and the list
\* without its first |limit| items for a negative limit
LastSlice(lst, limit) ==
    IF limit > 0
    THEN SubSeq(lst, IF Len(lst) > limit THEN Len(lst) - limit + 1 ELSE 1, Len(lst))
    ELSE SubSeq(lst, 1 - limit, Len(lst))

\* an argument 'limit': None, or an integer
Limit(n) == [int |-> n]

MaxLimit == 2

HistoryLimits == {None} \cup {Limit(n) : n \in 0..MaxLimit}

get_trade_history(log, limit) ==
    IF limit # None /\ limit.int # 0 THEN LastSlice(log, limit.int) ELSE log

get_signal_history(history, limit) ==
    IF limit # None /\ limit.int # 0 THEN LastSlice(history, limit.int) ELSE history

GetTradeHistory(limit) ==
    /\ result' = [trades |-> get_trade_history(trade_log, limit)]
    /\ UNCHANGED <<is_running, positions, signals, trade_log, current_position,
                   TRADING_MODE, broker_orders>>
    /\ UNCHANGED webhookVars
    /\ UNCHANGED threadVars
    /\ fetched' = FALSE
    /\ UNCHANGED indicatorVars
    /\ UNCHANGED serverVars

GetSignalHistory(limit) ==
    /\ result' = [history |-> get_signal_history(signals, limit)]
    /\ UNCHANGED <<is_running, positions, signals, trade_log, current_position,
                   TRADING_MODE, broker_orders>>
    /\ UNCHANGED webhookVars
    /\ UNCHANGED threadVars
    /\ fetched' = FALSE
    /\ UNCHANGED indicatorVars
    /\ UNCHANGED serverVars

\* the frames of HistorySpec: no data, and the full frames that open at 100
HistoryFrames ==
    {None} \cup {[close |-> c] : c \in {b \in BarSeries(MinBars) : b[1] = 100}}

HistoryNext ==
    \/ Start
    \/ Stop
    \/ Reset
    \/ \E signal \in ConcSignals : ExecuteSignal(signal)
    \/ \E df \in HistoryFrames : RunIteration(df)
    \/ \E response \in PositionResponses, order_status \in {"ok", "error"} :
           CloseAllPositions(response, order_status)
    \/ \E limit \in HistoryLimits : GetTradeHistory(limit)
    \/ \E limit \in HistoryLimits : GetSignalHistory(limit)

HistorySpec == Init /\ [][HistoryNext]_vars

(***************************************************************************)
(* LogsSpec: reads of the webhook log (GET /logs and get_logs) between     *)
(* accepted commands, around the default limit.                            *)
(***************************************************************************)
DefaultLimit == 50

\* the 'limit' of a read: None when the caller gives none
LogLimits == {None} \cup {Limit(n) : n \in (0..MaxLimit) \cup {DefaultLimit + 1}}

\* self.webhook_logs[-limit:], limit defaulting to 50
get_logs(logs, limit) ==
    LastSlice(logs, IF limit = None THEN DefaultLimit ELSE limit.int)

LogsInit ==
    /\ StrategyInit
    /\ TRADING_MODE = "PAPER"
    /\ ThreadsInit
    /\ IndicatorsInit
    /\ ListenerInit(TRUE)
    /\ token = WEBHOOK_TOKEN
    /\ trade_callback = "none"
    /\ \E log_entry \in LogEntries :
        /\ webhook_logs = [i \in 1..(DefaultLimit - 1) |-> log_entry]
        /\ accepted = [i \in 1..(DefaultLimit - 1) |-> log_entry]
    /\ callback_calls = <<>>
    /\ request = None
    /\ http_response = None

\* GET /logs?limit=N
Logs(limit) ==
    /\ http_response' = [code |-> 200, status |-> "ok",
                         logs |-> get_logs(webhook_logs, limit)]
    /\ UNCHANGED <<token, trade_callback, webhook_logs, callback_calls, accepted, request>>
    /\ UNCHANGED strategyVars
    /\ UNCHANGED threadVars
    /\ UNCHANGED providerVars
    /\ UNCHANGED indicatorVars
    /\ UNCHANGED serverVars

\* WebhookServer.get_logs(limit)
GetLogs(limit) ==
    /\ result' = [logs |-> get_logs(webhook_logs, limit)]
    /\ UNCHANGED <<is_running, positions, signals, trade_log, current_position,
                   TRADING_MODE, broker_orders>>
    /\ UNCHANGED webhookVars
    /\ UNCHANGED threadVars
    /\ UNCHANGED providerVars
    /\ UNCHANGED indicatorVars
    /\ UNCHANGED serverVars

LogsNext ==
    \/ \E log_entry \in LogEntries : Len(webhook_logs) <= DefaultLimit /\ AddLog(log_entry)
    \/ \E limit \in LogLimits : Logs(limit)
    \/ \E limit \in LogLimits : GetLogs(limit)

LogsSpec == LogsInit /\ [][LogsNext]_vars

(***************************************************************************)
(* CloseSpec: the two operations that query the broker for positions,      *)
(* update_positions and close_all_positions, on every answer of the        *)
(* broker, with start, stop and get_status called in between.              *)
(***************************************************************************)
\* BaseStrategy.update_positions, response being what get_positions returns
UpdatePositions(response) ==
    /\ positions' = update_positions(positions, response)
    /\ result' = None
    /\ UNCHANGED <<is_running, signals, trade_log, current_position, TRADING_MODE,
                   broker_orders>>
    /\ UNCHANGED webhookVars
    /\ UNCHANGED threadVars
    /\ fetched' = FALSE
    /\ UNCHANGED indicatorVars
    /\ UNCHANGED serverVars

CloseNext ==
    \/ Start
    \/ Stop
    \/ \E response \in PositionResponses : UpdatePositions(response)
    \/ \E response \in PositionResponses, order_status \in {"ok", "error"} :
           CloseAllPositions(response, order_status)
    \/ GetStatus

CloseSpec == Init /\ [][CloseNext]_vars

(***************************************************************************)
(* RaceSpec: the scheduled run_iteration on one thread and execute_signal  *)
(* called from a handler thread, interleaved line by line, under PAPER.    *)
(***************************************************************************)
\* the frames of RaceSpec: the full frames that open at 110
RaceFrames == {[close |-> c] : c \in {b \in BarSeries(MinBars) : b[1] = 110}}

RaceNext ==
    \/ Start
    \/ Stop
    \/ \E df \in RaceFrames : IterationCall("scheduler", df)
    \/ \E signal \in ConcSignals : Call("handler", signal)
    \/ \E t \in Threads : Entry169(t)
    \/ \E t \in Threads : Entry200(t)
    \/ \E t \in Threads : Entry202(t)
    \/ \E t \in Threads : Entry203(t)
    \/ \E t \in Threads : Exit226(t)
    \/ \E t \in Threads : Exit230(t)
    \/ \E t \in Threads : Exit232(t)
    \/ \E t \in Threads : Exit238(t)
    \/ \E t \in Threads : Exit249(t)
    \/ \E t \in Threads : Exit251(t)
    \/ \E t \in Threads : Exit256(t)

RaceSpec == ConcInit /\ [][RaceNext]_vars

(***************************************************************************)
(* HandlersSpec: two handler threads of the webhook server inside          *)
(* _add_log at once, interleaved line by line, around the cap of the log.  *)
(***************************************************************************)
\* _add_log line 147: self.webhook_logs.append(log_entry)
AddLog147(h, log_entry) ==
    /\ add_log_pc[h] = "idle"
    /\ Len(accepted) < LogCap + MaxOverflow
    /\ webhook_logs' = Append(webhook_logs, log_entry)
    /\ accepted' = Append(accepted, log_entry)
    /\ add_log_pc' = [add_log_pc EXCEPT ![h] = "add_log_150"]
    /\ UNCHANGED <<token, trade_callback, callback_calls, request, http_response>>
    /\ UNCHANGED <<server_is_running, server_thread, add_log_local>>
    /\ UNCHANGED strategyVars
    /\ UNCHANGED threadVars
    /\ UNCHANGED providerVars
    /\ UNCHANGED indicatorVars

\* _add_log line 150: if len(self.webhook_logs) > 1000
AddLog150(h) ==
    /\ add_log_pc[h] = "add_log_150"
    /\ add_log_pc' = [add_log_pc EXCEPT
                         ![h] = IF Len(webhook_logs) > LogCap THEN "add_log_151" ELSE "idle"]
    /\ UNCHANGED <<server_is_running, server_thread, add_log_local>>
    /\ UNCHANGED webhookVars
    /\ UNCHANGED strategyVars
    /\ UNCHANGED threadVars
    /\ UNCHANGED providerVars
    /\ UNCHANGED indicatorVars

\* _add_log line 151, right-hand side: self.webhook_logs[-1000:] is evaluated
AddLog151Slice(h) ==
    /\ add_log_pc[h] = "add_log_151"
    /\ add_log_local' = [add_log_local EXCEPT ![h] = LastSlice(webhook_logs, LogCap)]
    /\ add_log_pc' = [add_log_pc EXCEPT ![h] = "add_log_151_store"]
    /\ UNCHANGED <<server_is_running, server_thread>>
    /\ UNCHANGED webhookVars
    /\ UNCHANGED strategyVars
    /\ UNCHANGED threadVars
    /\ UNCHANGED providerVars
    /\ UNCHANGED indicatorVars

\* _add_log line 151, assignment: self.webhook_logs = <the slice>
AddLog151Store(h) ==
    /\ add_log_pc[h] = "add_log_151_store"
    /\ webhook_logs' = add_log_local[h]
    /\ add_log_local' = [add_log_local EXCEPT ![h] = <<>>]
    /\ add_log_pc' = [add_log_pc EXCEPT ![h] = "idle"]
    /\ UNCHANGED <<token, trade_callback, callback_calls, accepted, request, http_response>>
    /\ UNCHANGED <<server_is_running, server_thread>>
    /\ UNCHANGED strategyVars
    /\ UNCHANGED threadVars
    /\ UNCHANGED providerVars
    /\ UNCHANGED indicatorVars

\* the commands the overlapping handlers log
HandlerEntries == {log_entry \in LogEntries : log_entry.action \in {"BUY", "SELL"}}

HandlersNext ==
    \/ \E h \in Handlers, log_entry \in HandlerEntries : AddLog147(h, log_entry)
    \/ \E h \in Handlers : AddLog150(h)
    \/ \E h \in Handlers : AddLog151Slice(h)
    \/ \E h \in Handlers : AddLog151Store(h)

HandlersSpec == LogInit /\ [][HandlersNext]_vars

(***************************************************************************)
(* LifecycleSpec: start() and stop() of the webhook server, with requests  *)
(* arriving whenever a listener thread is serving.                         *)
(***************************************************************************)
MaxListeners == 2   \* most listener threads start() launches

LifecycleInit ==
    /\ StrategyInit
    /\ TRADING_MODE = "PAPER"
    /\ \E secret \in Secrets : ServerInit(secret)
    /\ ThreadsInit
    /\ IndicatorsInit
    /\ ListenerInit(FALSE)

\* WebhookServer.start
ServerStart ==
    /\ IF server_is_running
       THEN UNCHANGED <<server_is_running, server_thread>>
       ELSE /\ server_thread < MaxListeners
            /\ server_thread' = server_thread + 1
            /\ server_is_running' = TRUE
    /\ UNCHANGED <<add_log_pc, add_log_local>>
    /\ UNCHANGED webhookVars
    /\ UNCHANGED strategyVars
    /\ UNCHANGED threadVars
    /\ UNCHANGED providerVars
    /\ UNCHANGED indicatorVars

\* WebhookServer.stop: the flag is cleared, the listener thread is left alone
ServerStop ==
    /\ server_is_running' = FALSE
    /\ UNCHANGED <<server_thread, add_log_pc, add_log_local>>
    /\ UNCHANGED webhookVars
    /\ UNCHANGED strategyVars
    /\ UNCHANGED threadVars
    /\ UNCHANGED providerVars
    /\ UNCHANGED indicatorVars

\* the requests of LifecycleSpec: a complete BUY command, with either token
LifecycleRequests ==
    {req \in Requests :
        /\ req.body = "json"
        /\ req.data.kind = "object"
        /\ req.data.token \in {Str("s3cr3t"), Str("wrong")}
        /\ req.data.action = Str("buy")
        /\ req.data.symbol = Str("NSE:SBIN-EQ")
        /\ req.data.order_type = Absent}

LifecycleNext ==
    \/ ServerStart
    \/ ServerStop
    \/ \E callback \in TradeCallbacks : SetTradeCallback(callback)
    \/ \E req \in LifecycleRequests : server_thread > 0 /\ Post(req)
    \/ Webhook
    \/ ClearLogs

LifecycleSpec == LifecycleInit /\ [][LifecycleNext]_vars

(***************************************************************************)
(* Properties.                                                             *)
(***************************************************************************)
IsPosition(pos) ==
    /\ DOMAIN pos = {"symbol", "option_type", "entry_price", "quantity",
                     "stop_loss", "target"}
    /\ pos.option_type \in {"CE", "PE"}

\* the ENTRY records of a ledger that no later EXIT record follows
RECURSIVE OpenEntries(_)
OpenEntries(log) ==
    IF log = <<>> THEN <<>>
    ELSE LET last == log[Len(log)]
             before == SubSeq(log, 1, Len(log) - 1)
         IN  IF TradeType(last) = "EXIT" THEN <<>>
             ELSE IF TradeType(last) = "ENTRY" THEN Append(OpenEntries(before), last)
             ELSE OpenEntries(before)

\* C1: after any sequence of start, stop, run_iteration, execute_signal,
\* close_all_positions and reset calls the strategy holds no Position or exactly
\* one: the slot is empty or one position, the ledger never shows two entries
\* that are both still open, and an entry still open is the position in the slot.
C1_AtMostOneOpenPosition ==
    /\ current_position = None \/ IsPosition(current_position)
    /\ Len(OpenEntries(trade_log)) <= 1
    /\ Len(OpenEntries(trade_log)) = 1 =>
           /\ current_position # None
           /\ OpenEntries(trade_log)[1] =
                  [type |-> "ENTRY", mode |-> "PAPER"] @@ current_position

\* an entry was executed while a position was open, and one position is held
C1_Witness ==
    /\ Len(trade_log) = 3
    /\ TradeType(trade_log[1]) = "ENTRY"
    /\ TradeType(trade_log[2]) = "EXIT"
    /\ TradeType(trade_log[3]) = "ENTRY"
    /\ current_position # None
    /\ current_position.symbol # trade_log[1].symbol

\* C4: executing EXIT when no Position is open returns success, leaves
\* current_position empty and appends nothing to the trade ledger; the state it
\* leaves is again one with no Position, so a second EXIT does the same.
C4_ExitWhenFlatIsNoOp ==
    [][\A signal \in SignalInputs :
          (signal.action = "EXIT" /\ current_position = None /\ ExecuteSignal(signal))
          => /\ result'.status = "success"
             /\ current_position' = None
             /\ trade_log' = trade_log]_vars

\* EXIT was executed with no position open, after a trade had been closed
C4_Witness ==
    /\ result = Result("success", "No position to exit")
    /\ current_position = None
    /\ trade_log # <<>>
    /\ TradeType(trade_log[Len(trade_log)]) = "EXIT"

\* C5: in PAPER mode an entry signal executed while a Position is open appends
\* one EXIT trade for the open Position and after it one ENTRY trade for the new
\* one, and the slot then holds the new Position.
C5_EntryWhileOpenExitsFirst ==
    [][\A signal \in SignalInputs :
          (/\ signal.action \in {"BUY_CALL", "BUY_PUT"}
           /\ current_position # None
           /\ TRADING_MODE = "PAPER"
           /\ ExecuteSignal(signal))
          => LET n == Len(trade_log)
             IN  /\ Len(trade_log') = n + 2
                 /\ SubSeq(trade_log', 1, n) = trade_log
                 /\ TradeType(trade_log'[n + 1]) = "EXIT"
                 /\ trade_log'[n + 1].symbol = current_position.symbol
                 /\ trade_log'[n + 1].entry_price = current_position.entry_price
                 /\ trade_log'[n + 1].quantity = current_position.quantity
                 /\ TradeType(trade_log'[n + 2]) = "ENTRY"
                 /\ current_position' # None
                 /\ trade_log'[n + 2] =
                        [type |-> "ENTRY", mode |-> "PAPER"] @@ current_position'
                 /\ current_position'.option_type = get_option_type(signal, "CE")
                 /\ current_position'.entry_price = get_current_price(signal, 0)]_vars

\* a PUT was entered over an open CALL: the CALL's EXIT precedes the PUT's ENTRY
C5_Witness ==
    /\ Len(trade_log) = 3
    /\ TradeType(trade_log[1]) = "ENTRY" /\ trade_log[1].option_type = "CE"
    /\ TradeType(trade_log[2]) = "EXIT" /\ trade_log[2].symbol = trade_log[1].symbol
    /\ TradeType(trade_log[3]) = "ENTRY" /\ trade_log[3].option_type = "PE"
    /\ current_position # None /\ current_position.option_type = "PE"
    /\ result = Result("success", "Paper trade executed")

\* C6: whenever execute_signal returns status error for BUY_CALL, BUY_PUT or EXIT,
\* current_position and the trade ledger are as before the call; in LIVE mode
\* every entry, and every exit of an open Position, returns error (no paper
\* bookkeeping is done in its place).
C6_FailedExecutionChangesNothing ==
    [][\A signal \in SignalInputs :
          (signal.action \in {"BUY_CALL", "BUY_PUT", "EXIT"} /\ ExecuteSignal(signal))
          => /\ result'.status = "error" =>
                    (current_position' = current_position /\ trade_log' = trade_log)
             /\ (TRADING_MODE = "LIVE"
                    /\ (signal.action = "EXIT" => current_position # None))
                   => result'.status = "error"]_vars

\* in LIVE mode an execution failed and the position opened before is still held
C6_Witness ==
    /\ TRADING_MODE = "LIVE"
    /\ result = Result("error", "Live trading not implemented in demo")
    /\ current_position # None
    /\ Len(trade_log) = 1
    /\ trade_log[1] = [type |-> "ENTRY", mode |-> "PAPER"] @@ current_position


(***************************************************************************)
(* Webhook properties (WebhookSpec).                                       *)
(***************************************************************************)
InvalidToken == HttpResponse(401, "error", "Invalid token")
NoDataReceived == HttpResponse(400, "error", "No data received")
MissingFields == HttpResponse(400, "error", "Missing required fields")
InvalidAction == HttpResponse(400, "error", "Invalid action")

\* this step is the handler answering the request in flight
Handled == request # None /\ request' = None

\* this step is the handler answering a request whose body is a non-empty object
HandledObject ==
    /\ Handled
    /\ request.body = "json"
    /\ request.data.kind = "object"

\* C7, as stated: a request whose token differs from the secret gets 401, the
\* callback is not invoked, and the command is still recorded in the log.
C7_WrongTokenStillLogged ==
    [][(HandledObject /\ request.data.token # Str(token))
          => /\ http_response' = InvalidToken
             /\ callback_calls' = callback_calls
             /\ Len(webhook_logs') = Len(webhook_logs) + 1]_vars

\* C7, amended: a request whose token differs from the secret gets 401
\* "Invalid token", the callback is not invoked, and the command is not
\* recorded: the webhook log is left as it was.
C7_WrongTokenRejectedUnlogged ==
    [][(HandledObject /\ request.data.token # Str(token))
          => /\ http_response' = InvalidToken
             /\ callback_calls' = callback_calls
             /\ webhook_logs' = webhook_logs]_vars

\* a wrong-token request was turned away by a server that has a secret, a
\* callback and an earlier accepted command in its log
C7_Witness ==
    /\ http_response = InvalidToken
    /\ token = "s3cr3t"
    /\ trade_callback = "demo"
    /\ Len(webhook_logs) = 1
    /\ Len(callback_calls) = 1

\* the response the fail-fast order body, token, fields, action prescribes
\* for an object payload; None when every check passes
FirstFailure(data, secret) ==
    IF ~token_accepted(data.token, secret) THEN InvalidToken
    ELSE IF ~Truthy(data.action) \/ ~Truthy(data.symbol) THEN MissingFields
    ELSE IF Upper(data.action.v) \notin {"BUY", "SELL", "EXIT"} THEN InvalidAction
    ELSE None

\* C8: on an object payload the response is that of the first check that
\* fails, in the order token, required fields, action.
C8_FailFastOrder ==
    [][(HandledObject /\ FirstFailure(request.data, token) # None)
          => http_response' = FirstFailure(request.data, token)]_vars

\* C9: a body that is not an object (absent, null, array, string, number) is
\* answered 400 "No data received", never 500.
C9_NonObjectBodyIs400 ==
    [][(/\ Handled
        /\ \/ request.body = "absent"
           \/ request.data.kind \notin {"object", "empty_object"})
          => http_response' = NoDataReceived]_vars

\* C10, as stated: a request passes the token check iff its token equals the
\* configured secret exactly, whatever the secret, the empty one included.
C10_TokenPassesIffEqual ==
    [][HandledObject
          => ((http_response' # InvalidToken) <=> (request.data.token = Str(token)))]_vars

\* C10, amended: a request passes the token check iff its token is a
\* non-empty string equal to the configured secret; every other request,
\* and so every request to a server with the empty secret, gets 401.
C10_TokenPassesIffNonEmptyEqual ==
    [][HandledObject
          => /\ (http_response' # InvalidToken)
                    <=> (request.data.token = Str(token) /\ request.data.token # Str(""))
             /\ token = "" => http_response' = InvalidToken]_vars

\* the server with the empty secret has turned away a request that carried
\* the empty token
C10_Witness ==
    /\ token = ""
    /\ http_response = InvalidToken
    /\ request = None

(***************************************************************************)
(* Concurrency properties (ConcSpec).                                      *)
(***************************************************************************)
\* C2: however the executions interleave, the trade ledger never holds two
\* ENTRY records with no EXIT or CLOSE record between them.
C2_NoTwoEntriesInARow ==
    \A i \in 1..(Len(trade_log) - 1) :
        ~(TradeType(trade_log[i]) = "ENTRY" /\ TradeType(trade_log[i + 1]) = "ENTRY")

\* the thread has read the position slot and has not yet written it for the
\* last time
Between(t) ==
    \/ pc[t] \in {"entry_200", "entry_202", "exit_230", "exit_232", "exit_238",
                  "exit_249", "exit_251", "exit_256"}
    \/ pc[t] = "exit_226" /\ frame[t].nested

\* C3: executions exclude one another: no execution begins while another is
\* between its first read and its last write of the position slot.
C3_ExecutionsMutuallyExclusive ==
    [][\A t \in Threads :
          (pc[t] = "idle" /\ pc'[t] # "idle")
          => \A u \in Threads \ {t} : ~Between(u)]_vars

\* the request carries a token the server lets through
TokenValid(data) ==
    data.token.t = "str" /\ data.token.v # "" /\ data.token.v = token

\* a field that is absent, null or the empty string
Blank(x) == x \in {Absent, Null, Str("")}

ValidActions == {"BUY", "SELL", "EXIT"}

\* C11: a token-valid request whose action or symbol is absent, null or empty
\* is answered 400 "Missing required fields", and neither the log nor the
\* callback is touched (requests that carry no order_type).
C11_BlankFieldIs400 ==
    [][(/\ HandledObject
        /\ TokenValid(request.data)
        /\ request.data.order_type = Absent
        /\ Blank(request.data.action) \/ Blank(request.data.symbol))
          => /\ http_response' = MissingFields
             /\ webhook_logs' = webhook_logs
             /\ callback_calls' = callback_calls]_vars

\* the step accepts the command: it passes validation and is logged
Accepted == Len(webhook_logs') = Len(webhook_logs) + 1

\* C12: a token-valid request with a non-empty symbol and an action string is
\* accepted iff its upper-cased action is BUY, SELL or EXIT and is otherwise
\* answered 400 "Invalid action"; the logged entry and the callback argument
\* carry the upper-cased action.
C12_ActionAnyCase ==
    [][(/\ HandledObject
        /\ TokenValid(request.data)
        /\ ~Blank(request.data.symbol)
        /\ ~Blank(request.data.action))
          => IF Upper(request.data.action.v) \in ValidActions
             THEN /\ Accepted
                  /\ webhook_logs'[Len(webhook_logs')].action
                         = Upper(request.data.action.v)
                  /\ trade_callback # "none"
                         => callback_calls'[Len(callback_calls')].arg.action
                                = Upper(request.data.action.v)
             ELSE http_response' = InvalidAction]_vars

\* the request fails one of the validations: body, token, fields, action
FailsValidation ==
    \/ request.body = "absent"
    \/ request.data.kind # "object"
    \/ ~TokenValid(request.data)
    \/ Blank(request.data.action)
    \/ Blank(request.data.symbol)
    \/ Upper(request.data.action.v) \notin ValidActions

\* C13: a request that fails validation never invokes the trade callback and
\* leaves current_position, the trade ledger and the signal history as they
\* were.
C13_RejectedNeverReachesStrategy ==
    [][(Handled /\ FailsValidation)
          => /\ callback_calls' = callback_calls
             /\ current_position' = current_position
             /\ trade_log' = trade_log
             /\ signals' = signals]_vars

\* a server with a callback registered has answered a request "Invalid action"
\* and its callback has never been invoked
C13_Witness ==
    /\ trade_callback = "demo"
    /\ http_response = InvalidAction
    /\ callback_calls = <<>>

\* the request passes every validation
Validated ==
    /\ HandledObject
    /\ TokenValid(request.data)
    /\ ~Blank(request.data.action)
    /\ ~Blank(request.data.symbol)
    /\ Upper(request.data.action.v) \in ValidActions
    /\ request.data.order_type # Null

\* the log entry of the request in flight
EntryOf(data) ==
    [action |-> Upper(data.action.v), symbol |-> data.symbol.v,
     quantity |-> data.quantity, order_type |-> "MARKET", price |-> data.price]

\* C14: for a validated command with a callback registered, the entry is in
\* the log when the callback is invoked, the callback's return value comes
\* back with HTTP 200, and when the callback raises the response is HTTP 500
\* and the entry stays in the log.
C14_LogThenCallback ==
    [][(Validated /\ trade_callback # "none")
          => /\ webhook_logs' = Append(webhook_logs, EntryOf(request.data))
             /\ callback_calls' = Append(callback_calls,
                    [arg |-> EntryOf(request.data), in_log |-> TRUE])
             /\ trade_callback = "demo"
                    => /\ http_response'.code = 200
                       /\ http_response'.result
                              = [status |-> "received", mode |-> TRADING_MODE]
             /\ trade_callback = "raises" => http_response'.code = 500]_vars

\* a callback that raises was invoked and the command is in the log
C14_Witness ==
    /\ trade_callback = "raises"
    /\ http_response = HttpResponse(500, "error", "Trade execution failed")
    /\ Len(webhook_logs) = 1
    /\ Len(callback_calls) = 1
    /\ callback_calls[1].in_log

\* C15: with no callback registered a validated command is logged and
\* answered HTTP 200 "Webhook received but no callback set".
C15_NoCallbackStillAnswered ==
    [][(Validated /\ trade_callback = "none")
          => /\ webhook_logs' = Append(webhook_logs, EntryOf(request.data))
             /\ callback_calls' = callback_calls
             /\ http_response' = HttpResponse(200, "success",
                                     "Webhook received but no callback set")]_vars

\* a command was logged and answered by a server with no callback
C15_Witness ==
    /\ trade_callback = "none"
    /\ http_response = HttpResponse(200, "success",
                                    "Webhook received but no callback set")
    /\ Len(webhook_logs) = 1
    /\ callback_calls = <<>>

(***************************************************************************)
(* Log properties (LogSpec).                                               *)
(***************************************************************************)
Min(a, b) == IF a < b THEN a ELSE b

\* C16: the webhook log never holds more than 1000 entries, and it is the
\* min(n, 1000) most recently accepted commands in arrival order.
C16_LogIsNewestThousand ==
    LET n == Len(accepted)
        m == Min(n, 1000)
    IN  /\ Len(webhook_logs) <= 1000
        /\ webhook_logs = SubSeq(accepted, n - m + 1, n)

\* more commands were accepted than the log holds, and the newest one, which
\* differs from the oldest kept, closes the log
C16_Witness ==
    /\ Len(accepted) = 1002
    /\ Len(webhook_logs) = 1000
    /\ webhook_logs[1000] = accepted[1002]
    /\ webhook_logs[1000] # webhook_logs[1]

(***************************************************************************)
(* Iteration properties.                                                   *)
(***************************************************************************)
\* C18: run_iteration on a stopped strategy returns the not-running result
\* without asking for market data and leaves current_position, the signal
\* history and the trade ledger as they were; on a running strategy it
\* returns the generated signal with the result of executing that signal.
C18_RunIterationStoppedIsNoOp ==
    [][\A df \in FetchResults :
          RunIteration(df)
          => IF ~is_running
             THEN /\ result' = Result("stopped", "Strategy not running")
                  /\ ~fetched'
                  /\ current_position' = current_position
                  /\ signals' = signals
                  /\ trade_log' = trade_log
             ELSE LET gen == generate_signal(df, current_position)
                      out == execute_signal(current_position, trade_log,
                                            TRADING_MODE, gen.signal)
                  IN  /\ fetched'
                      /\ result'.status = "success"
                      /\ result'.signal = gen.signal
                      /\ result'.execution = out.result
                      /\ current_position' = out.current_position
                      /\ trade_log' = out.trade_log]_vars

\* a stopped strategy that holds a position and a ledger has answered a
\* run_iteration call
C18_Witness ==
    /\ ~is_running
    /\ result = Result("stopped", "Strategy not running")
    /\ current_position # None
    /\ trade_log # <<>>

\* the provider returned a frame with enough bars for the EMAs
Sufficient(df) == df \notin {None, Raised} /\ Len(df.close) >= slow_ema_period + 5

\* the crossover of the EMAs of a frame with sufficient history
CrossoverOf(df) ==
    detect_crossover(calculate_ema(df.close, fast_ema_period),
                     calculate_ema(df.close, slow_ema_period)).crossover

\* C20: with sufficient history a bullish crossover gives the signal
\* BUY_CALL with option type CE and a bearish crossover gives BUY_PUT with
\* option type PE, whether or not a position is open.
C20_CrossoverChoosesEntry ==
    [][\A df \in FetchResults :
          (/\ RunIteration(df)
           /\ is_running
           /\ Sufficient(df)
           /\ CrossoverOf(df) # "none")
          => LET signal == signals'[Len(signals')]
             IN  /\ Len(signals') = Len(signals) + 1
                 /\ CrossoverOf(df) = "bullish_cross"
                        => /\ signal.action = "BUY_CALL"
                           /\ signal.option_type = "CE"
                           /\ result'.signal = signal
                 /\ CrossoverOf(df) = "bearish_cross"
                        => /\ signal.action = "BUY_PUT"
                           /\ signal.option_type = "PE"
                           /\ result'.signal = signal]_vars

\* a bearish crossover arrived while a call position was open: the signal is
\* BUY_PUT, and the ledger shows the exit of the call before the new entry
C20_Witness ==
    /\ Len(signals) = 1
    /\ signals[1].action = "BUY_PUT"
    /\ signals[1].option_type = "PE"
    /\ Len(trade_log) = 2
    /\ TradeType(trade_log[1]) = "EXIT"
    /\ trade_log[1].symbol = <<underlying_symbol, "CE">>

\* C17: a validated webhook BUY is executed through execute_signal: it
\* makes the position transition and the ledger append that an entry signal
\* handed to execute_signal makes.
C17_WebhookDrivesExecuteSignal ==
    [][(/\ Validated
        /\ trade_callback = "demo"
        /\ Upper(request.data.action.v) = "BUY")
          => \E signal \in SignalInputs :
                 /\ signal.action \in {"BUY_CALL", "BUY_PUT"}
                 /\ current_position'
                        = execute_signal(current_position, trade_log, TRADING_MODE,
                                         signal).current_position
                 /\ trade_log'
                        = execute_signal(current_position, trade_log, TRADING_MODE,
                                         signal).trade_log]_vars

Idle(t) == pc[t] = "idle"

BiasOf(df) ==
    detect_crossover(calculate_ema(df.close, fast_ema_period),
                     calculate_ema(df.close, slow_ema_period)).signal_type

\* the option kind of the position conflicts with the bias
Conflicts(pos, bias) ==
    \/ pos.option_type = "CE" /\ bias = -1
    \/ pos.option_type = "PE" /\ bias = 1

C22_ShortHistoryHolds ==
    [][\A df \in FetchResults :
          (/\ RunIteration(df)
           /\ is_running
           /\ df # Raised
           /\ df = None \/ Len(df.close) < slow_ema_period + 5)
          => /\ result'.signal.action = "HOLD"
             /\ result'.signal.reason = "Insufficient data"
             /\ DOMAIN result'.signal
                    \cap {"fast_ema", "slow_ema", "signal_type", "crossover"} = {}
             /\ result'.execution = Result("success", "Holding position")
             /\ current_position' = current_position
             /\ trade_log' = trade_log]_vars

\* an iteration met a short history while a position was open, and the
\* position and the ledger are those of the entry
C22_Witness ==
    /\ is_running
    /\ fetched
    /\ "signal" \in DOMAIN result
    /\ result.signal.reason = "Insufficient data"
    /\ current_position # None
    /\ Len(trade_log) = 1
    /\ TradeType(trade_log[1]) = "ENTRY"

\* C23: every invocation of generate_signal makes the signal history one
\* longer, whatever its outcome.
C23_EveryInvocationAppendsOne ==
    [][\A df \in FetchResults :
          (RunIteration(df) /\ is_running)
          => Len(signals') = Len(signals) + 1]_vars

Sign(n) == IF n > 0 THEN 1 ELSE IF n < 0 THEN -1 ELSE 0

\* C24: detect_crossover answers from the last two points of each series:
\* (1, bullish) iff fast_prev <= slow_prev and fast_cur > slow_cur,
\* (-1, bearish) iff fast_prev >= slow_prev and fast_cur < slow_cur, otherwise
\* (sign(fast_cur - slow_cur), none), and (0, none) when a series has fewer
\* than two points; the two crossovers exclude each other.
C24_CrossoverFromLastTwoPoints ==
    detected # None
    => IF Len(fast_arg) < 2 \/ Len(slow_arg) < 2
       THEN detected = [signal_type |-> 0, crossover |-> "none"]
       ELSE LET fast_cur == fast_arg[Len(fast_arg)].num
                fast_prev == fast_arg[Len(fast_arg) - 1].num
                slow_cur == slow_arg[Len(slow_arg)].num
                slow_prev == slow_arg[Len(slow_arg) - 1].num
                bullish == fast_prev <= slow_prev /\ fast_cur > slow_cur
                bearish == fast_prev >= slow_prev /\ fast_cur < slow_cur
            IN  /\ ~(bullish /\ bearish)
                /\ bullish <=> detected = [signal_type |-> 1,
                                           crossover |-> "bullish_cross"]
                /\ bearish <=> detected = [signal_type |-> -1,
                                           crossover |-> "bearish_cross"]
                /\ (~bullish /\ ~bearish)
                       => detected = [signal_type |-> Sign(fast_cur - slow_cur),
                                      crossover |-> "none"]

\* the fast series 1, 2, 3 crossing the slow series 2, 2, 2 gave (1, bullish)
C24_Witness ==
    /\ fast_arg = <<[num |-> 1, den |-> 1], [num |-> 2, den |-> 1], [num |-> 3, den |-> 1]>>
    /\ slow_arg = <<[num |-> 2, den |-> 1], [num |-> 2, den |-> 1], [num |-> 2, den |-> 1]>>
    /\ detected = [signal_type |-> 1, crossover |-> "bullish_cross"]

\* stop_loss and target of a position or ENTRY trade follow the long
\* convention; both are kept in hundredths of a price unit
LongLevels(pos) ==
    /\ pos.stop_loss = pos.entry_price * (100 - stop_loss_pct)
    /\ pos.target = pos.entry_price * (100 + target_pct)
    /\ pos.entry_price = 100 => pos.stop_loss = 98 * 100 /\ pos.target = 104 * 100
    /\ pos.stop_loss <= pos.entry_price * 100
    /\ pos.entry_price * 100 <= pos.target

\* C25: every position an entry creates, call or put, has
\* stop_loss = entry_price * (1 - stop_loss_pct/100) and
\* target = entry_price * (1 + target_pct/100): 98 and 104 for an entry at
\* 100, and stop_loss <= entry_price <= target.
C25_StopAndTargetLongConvention ==
    /\ current_position # None => LongLevels(current_position)
    /\ \A i \in 1..Len(trade_log) :
           TradeType(trade_log[i]) = "ENTRY" => LongLevels(trade_log[i])

\* a put was entered at 100 with stop_loss 98 and target 104
C25_Witness ==
    /\ current_position # None
    /\ current_position.option_type = "PE"
    /\ current_position.entry_price = 100
    /\ current_position.stop_loss = 9800
    /\ current_position.target = 10400
    /\ Len(trade_log) = 1

\* C26: the EXIT trade of a position records that position's entry_price
\* and quantity, the exiting signal's price (the entry price when it carries
\* none) as exit_price, pnl = (exit_price - entry_price) * quantity and
\* pnl_pct = (exit_price - entry_price) / entry_price * 100, 0 when
\* entry_price is 0: 20 and 10 for entry 100, exit 110, quantity 2.
C26_ExitRecordsPnl ==
    [][\A signal \in SignalInputs :
          (/\ ExecuteSignal(signal)
           /\ current_position # None
           /\ Len(trade_log') > Len(trade_log)
           /\ TradeType(trade_log'[Len(trade_log) + 1]) = "EXIT")
          => LET trade == trade_log'[Len(trade_log) + 1]
                 entry_price == current_position.entry_price
                 quantity == current_position.quantity
                 exit_price == IF signal.has_price THEN signal.current_price
                               ELSE entry_price
             IN  /\ trade.entry_price = entry_price
                 /\ trade.quantity = quantity
                 /\ trade.exit_price = exit_price
                 /\ trade.pnl = (exit_price - entry_price) * quantity
                 /\ trade.pnl_pct.den > 0
                 /\ IF entry_price = 0
                    THEN trade.pnl_pct.num = 0
                    ELSE trade.pnl_pct.num * entry_price
                             = (exit_price - entry_price) * 100 * trade.pnl_pct.den
                 /\ (entry_price = 100 /\ exit_price = 110 /\ quantity = 2)
                        => /\ trade.pnl = 20
                           /\ trade.pnl_pct.num = 10 * trade.pnl_pct.den]_vars

\* a position entered at 100 with quantity 2 was exited at 110
C26_Witness ==
    /\ Len(trade_log) = 2
    /\ TradeType(trade_log[2]) = "EXIT"
    /\ trade_log[2].entry_price = 100
    /\ trade_log[2].exit_price = 110
    /\ trade_log[2].quantity = 2
    /\ trade_log[2].pnl = 20
    /\ current_position = None

\* this step appended an ENTRY or EXIT trade or changed the position slot
EntryOrExitStep ==
    \/ current_position' # current_position
    \/ /\ Len(trade_log') > Len(trade_log)
       /\ TradeType(trade_log'[Len(trade_log')]) \in {"ENTRY", "EXIT"}

\* C27: in PAPER mode a step that enters or exits a position leaves the
\* orders the broker received and the cache of the broker's positions as they
\* were: it changes the position slot and the trade ledger only.
C27_PaperNeverReachesBroker ==
    [][(TRADING_MODE = "PAPER" /\ EntryOrExitStep)
          => /\ broker_orders' = broker_orders
             /\ positions' = positions
             /\ is_running' = is_running
             /\ signals' = signals]_vars

\* a paper position was entered and exited and the broker received nothing
C27_Witness ==
    /\ TRADING_MODE = "PAPER"
    /\ Len(trade_log) = 2
    /\ TradeType(trade_log[1]) = "ENTRY"
    /\ TradeType(trade_log[2]) = "EXIT"
    /\ current_position = None
    /\ broker_orders = <<>>
    /\ positions = <<>>

\* C28: once close_all_positions has returned the strategy has no open
\* position, whatever the state before the call.
C28_CloseAllLeavesFlat ==
    "closed" \in DOMAIN result => current_position = None

NonZero(ps) == SelectSeq(ps, LAMBDA position : position.netQty # 0)

C30_StatusIsSnapshot ==
    "total_trades" \in DOMAIN result
    => /\ result.is_running = is_running
       /\ result.total_trades = Len(trade_log)
       /\ result.positions > 0 <=> current_position # None

\* C31 (as claimed): across every public operation, reset included, the
\* ledger before the operation is a prefix of the ledger after it
IsPrefix(before, after) ==
    /\ Len(before) <= Len(after)
    /\ SubSeq(after, 1, Len(before)) = before

C31_LedgerAppendOnly == [][IsPrefix(trade_log, trade_log')]_vars

\* C31 (amended): across start, stop, run_iteration, execute_signal,
\* close_all_positions and the history reads the ledger before the operation
\* is a prefix of the ledger after it; reset() empties the ledger
C31_LedgerAppendOnlyUntilReset ==
    [][IF Reset THEN trade_log' = <<>> ELSE IsPrefix(trade_log, trade_log')]_vars

C31_Witness ==
    /\ "trades" \in DOMAIN result
    /\ Len(trade_log) >= 2
    /\ result.trades = trade_log

\* C35: get_trade_history(limit) and get_signal_history(limit) return the
\* last min(limit, size) entries, in ledger order, for every integer limit >= 0
LastN(lst, n) == SubSeq(lst, Len(lst) - Min(n, Len(lst)) + 1, Len(lst))

C35_HistoryAtMostLimit ==
    [][\A limit \in HistoryLimits \ {None} :
          /\ GetTradeHistory(limit) => result'.trades = LastN(trade_log, limit.int)
          /\ GetSignalHistory(limit) => result'.history = LastN(signals, limit.int)]_vars

\* C32: the trading mode of an instance is fixed at construction: a strategy
\* that holds a position entered it under PAPER, so an EXIT it executes runs
\* under PAPER and closes that position, whatever strategies were
\* constructed in between
C32_ExitRunsUnderConstructionMode ==
    [][\A signal \in SignalInputs :
          (/\ ExecuteSignal(signal)
           /\ signal.action = "EXIT"
           /\ current_position # None)
          => (TRADING_MODE = "PAPER" /\ current_position' = None)]_vars

\* the last close of a frame, in hundredths like stop_loss and target
LastPrice(df) == df.close[Len(df.close)] * 100

\* C33: a running iteration that observes a price at or below the
\* stop-loss, or at or above the target, of the open position gives EXIT and
\* closes the position
C33_ExitAtTargetOrStopLoss ==
    [][\A df \in DataFrames :
          (/\ RunIteration(df)
           /\ is_running
           /\ Sufficient(df)
           /\ TRADING_MODE = "PAPER"
           /\ current_position # None
           /\ \/ LastPrice(df) <= current_position.stop_loss
              \/ LastPrice(df) >= current_position.target)
          => (/\ result'.signal.action = "EXIT"
              /\ current_position' = None)]_vars

\* C34: GET /logs?limit=N and get_logs(limit=N) return the last
\* min(N, size) entries of the log in arrival order for every N >= 0 (none
\* for N = 0), and the last 50 when no limit is given
C34_LogsLastN ==
    [][\A limit \in LogLimits :
          LET n == IF limit = None THEN DefaultLimit ELSE limit.int
          IN  /\ Logs(limit) => http_response'.logs = LastN(webhook_logs, n)
              /\ GetLogs(limit) => result'.logs = LastN(webhook_logs, n)]_vars

\* whether the position query of a call succeeded
QueryOk(response) == "s" \in DOMAIN response /\ response.s = "ok"

\* C36: when the position query of a close_all_positions call fails or is
\* answered with a non-success envelope, the call places no order and
\* appends no CLOSE trade, whatever an earlier query has cached
C36_NoCloseWithoutFreshQuery ==
    [][\A response \in PositionResponses, order_status \in {"ok", "error"} :
          (CloseAllPositions(response, order_status) /\ ~QueryOk(response))
          => (/\ broker_orders' = broker_orders
              /\ trade_log' = trade_log
              /\ result'.closed = <<>>)]_vars

\* the ENTRY and EXIT records of a ledger, in order
EntriesAndExits(log) == SelectSeq(log, LAMBDA trade : TradeType(trade) \in {"ENTRY", "EXIT"})

\* C37: under PAPER, after any sequence of sequential calls, the ENTRY and
\* EXIT records of the ledger alternate beginning with an ENTRY, and the
\* position slot is set exactly when the last of them is an ENTRY
C37_LedgerMatchesPosition ==
    TRADING_MODE = "PAPER"
    => LET records == EntriesAndExits(trade_log)
       IN  /\ \A i \in 1..Len(records) :
                  TradeType(records[i]) = (IF i % 2 = 1 THEN "ENTRY" ELSE "EXIT")
           /\ current_position # None
                  <=> (records # <<>> /\ TradeType(records[Len(records)]) = "ENTRY")

\* C38: an EXIT that a scheduled iteration computed closes only the position
\* it was evaluated against.  generate_signal gives EXIT for a CE position
\* under a bearish bias and for a PE position under a bullish bias, so the
\* EXIT record the scheduler appends is for a CE position when the bias of
\* its signal is bearish and for a PE position when it is bullish.
C38_ExitClosesEvaluatedPosition ==
    [][(/\ pc["scheduler"] = "exit_251"
        /\ pc'["scheduler"] = "exit_256"
        /\ frame["scheduler"].signal.action = "EXIT")
       => trade_log'[Len(trade_log')].symbol[2]
              = (IF frame["scheduler"].signal.signal_type = -1 THEN "CE" ELSE "PE")]_vars

\* C39: once every handler has left _add_log, the webhook log holds an entry
\* for each command handed to it, up to the 1000 most recent, in arrival
\* order
C39_NoAcceptedCommandLost ==
    (\A h \in Handlers : add_log_pc[h] = "idle")
    => webhook_logs = LastN(accepted, LogCap)

\* C40: while the server is stopped (before its first start(), and between
\* a stop() and the next start()) no command is accepted and nothing is
\* forwarded to the trade callback
C40_StoppedServerAcceptsNothing ==
    [][~server_is_running
       => (accepted' = accepted /\ callback_calls' = callback_calls)]_vars

====
